---- MODULE Spec2Model ----
(***************************************************************************)
(* Model of the food-allergy-chart page (src/app/page.tsx): the share      *)
(* token codec, the confirmation gate, and the selection / filter engine   *)
(* of HomePage.                                                            *)
(*                                                                         *)
(* Strings are sequences of UTF-16 code units (naturals), as in the        *)
(* JavaScript source; Chars("...") writes an ASCII literal.  JavaScript    *)
(* values are tagged records [t |-> tag, v |-> content].                   *)
(***************************************************************************)
EXTENDS Integers, Sequences, FiniteSets, TLC

-----------------------------------------------------------------------------
(* Strings *)

(* the code units of an ASCII literal: U+0020..U+005F and U+0061..U+007E *)
Chars(s) ==
  LET lo == " !\"#$%&'()*+,-./0123456789:;<=>?@ABCDEFGHIJKLMNOPQRSTUVWXYZ[\\]^_"
      hi == "abcdefghijklmnopqrstuvwxyz{|}~"
      CodeOf(ch) ==
        IF \E i \in 1..Len(lo) : SubSeq(lo, i, i) = ch
        THEN 31 + (CHOOSE i \in 1..Len(lo) : SubSeq(lo, i, i) = ch)
        ELSE 96 + (CHOOSE i \in 1..Len(hi) : SubSeq(hi, i, i) = ch)
  IN [i \in 1..Len(s) |-> CodeOf(SubSeq(s, i, i))]

Range(f) == {f[i] : i \in DOMAIN f}

(* F applied to a value that is computed once (a const of the code) *)
Bind(x, F(_)) == F(x)

(* concatenation of a sequence of sequences, by halves *)
RECURSIVE Concat(_)
Concat(ss) ==
  IF Len(ss) = 0 THEN <<>>
  ELSE IF Len(ss) = 1 THEN ss[1]
  ELSE LET h == Len(ss) \div 2 IN
       Concat(SubSeq(ss, 1, h)) \o Concat(SubSeq(ss, h + 1, Len(ss)))

Join(ss, sep) == Concat([i \in 1..Len(ss) |-> IF i = 1 THEN ss[1] ELSE sep \o ss[i]])

-----------------------------------------------------------------------------
(* JavaScript values *)

JNull == [t |-> "null", v |-> 0]

JUndef == [t |-> "undef", v |-> 0]

JBool(b) == [t |-> "bool", v |-> b]

JNum(n) == [t |-> "num", v |-> n]

JStr(s) == [t |-> "str", v |-> s]

JArr(a) == [t |-> "arr", v |-> a]

JObj(o) == [t |-> "obj", v |-> o]

Prop(k, val) == [k |-> k, val |-> val]

Truthy(j) ==
  CASE j.t = "null" -> FALSE
    [] j.t = "undef" -> FALSE
    [] j.t = "bool" -> j.v
    [] j.t = "num" -> j.v # 0
    [] j.t = "str" -> j.v # <<>>
    [] OTHER -> TRUE

IsArray(j) == j.t = "arr"

(* o[k] for a parsed object: the last property of that name, else undefined *)
GetProp(j, k) ==
  IF j.t = "obj" /\ \E i \in DOMAIN j.v : j.v[i].k = k
  THEN j.v[CHOOSE i \in DOMAIN j.v :
             /\ j.v[i].k = k
             /\ \A h \in DOMAIN j.v : j.v[h].k = k => h <= i].val
  ELSE JUndef

-----------------------------------------------------------------------------
(* JSON.stringify *)

RECURSIVE NatToStr(_)
NatToStr(n) ==
  IF n < 10 THEN <<48 + n>> ELSE NatToStr(n \div 10) \o <<48 + (n % 10)>>

IntToStr(n) == IF n < 0 THEN <<45>> \o NatToStr(0 - n) ELSE NatToStr(n)

Hex4(c) ==
  LET HexDigit(d) == IF d < 10 THEN 48 + d ELSE 87 + d
  IN << HexDigit((c \div 4096) % 16), HexDigit((c \div 256) % 16),
        HexDigit((c \div 16) % 16), HexDigit(c % 16) >>

IsHighSurrogate(c) == c >= 55296 /\ c <= 56319

IsLowSurrogate(c) == c >= 56320 /\ c <= 57343

(* QuoteJSONString; QuoteUnit(i): the escapes for the code unit at position
   i of s *)
Quote(s) ==
  LET QuoteUnit(i) ==
        LET c == s[i] IN
        CASE c = 34 -> <<92, 34>>
          [] c = 92 -> <<92, 92>>
          [] c = 8 -> <<92, 98>>
          [] c = 9 -> <<92, 116>>
          [] c = 10 -> <<92, 110>>
          [] c = 12 -> <<92, 102>>
          [] c = 13 -> <<92, 114>>
          [] c < 32 /\ c \notin {8, 9, 10, 12, 13} -> <<92, 117>> \o Hex4(c)
          [] IsHighSurrogate(c) ->
               IF i < Len(s) /\ IsLowSurrogate(s[i + 1]) THEN <<c>> ELSE <<92, 117>> \o Hex4(c)
          [] IsLowSurrogate(c) ->
               IF i > 1 /\ IsHighSurrogate(s[i - 1]) THEN <<c>> ELSE <<92, 117>> \o Hex4(c)
          [] OTHER -> <<c>>
  IN <<34>> \o Concat([i \in 1..Len(s) |-> QuoteUnit(i)]) \o <<34>>

RECURSIVE Stringify(_)
Stringify(j) ==
  CASE j.t = "null" -> Chars("null")
    [] j.t = "undef" -> Chars("null")
    [] j.t = "bool" -> IF j.v THEN Chars("true") ELSE Chars("false")
    [] j.t = "num" -> IntToStr(j.v)
    [] j.t = "str" -> Quote(j.v)
    [] j.t = "arr" ->
         <<91>> \o Join([i \in 1..Len(j.v) |-> Stringify(j.v[i])], <<44>>) \o <<93>>
    [] j.t = "obj" ->
         LET kept == SelectSeq(j.v, LAMBDA p : p.val.t # "undef") IN
         <<123>> \o Join([i \in 1..Len(kept) |->
                           Quote(kept[i].k) \o <<58>> \o Stringify(kept[i].val)], <<44>>)
                 \o <<125>>

-----------------------------------------------------------------------------
(* JSON.parse: a recursive-descent parser over code units.  Numbers are    *)
(* integers (the texts of this model never hold a fraction or an exponent). *)

ParseFail == [ok |-> FALSE, val |-> JNull, pos |-> 0]

ParseOk(val, pos) == [ok |-> TRUE, val |-> val, pos |-> pos]

IsDigit(c) == c >= 48 /\ c <= 57

HexVal(c) ==
  CASE c >= 48 /\ c <= 57 -> c - 48
    [] c >= 97 /\ c <= 102 -> c - 87
    [] c >= 65 /\ c <= 70 -> c - 55
    [] OTHER -> -1

RECURSIVE SkipWs(_, _)
SkipWs(txt, i) ==
  IF i <= Len(txt) /\ txt[i] \in {32, 9, 10, 13} THEN SkipWs(txt, i + 1) ELSE i

StartsAt(txt, i, lit) ==
  /\ i + Len(lit) - 1 <= Len(txt)
  /\ \A h \in 1..Len(lit) : txt[i + h - 1] = lit[h]

RECURSIVE ParseDigits(_, _, _)
ParseDigits(txt, i, acc) ==
  IF i <= Len(txt) /\ IsDigit(txt[i])
  THEN ParseDigits(txt, i + 1, acc * 10 + (txt[i] - 48))
  ELSE [val |-> acc, pos |-> i]

ParseNumber(txt, i) ==
  LET neg == txt[i] = 45
      d == IF neg THEN i + 1 ELSE i
  IN IF d > Len(txt) \/ ~IsDigit(txt[d]) THEN ParseFail
     ELSE IF txt[d] = 48 /\ d < Len(txt) /\ IsDigit(txt[d + 1]) THEN ParseFail
     ELSE LET r == ParseDigits(txt, d, 0) IN
          IF r.pos <= Len(txt) /\ txt[r.pos] \in {46, 101, 69} THEN ParseFail
          ELSE ParseOk(JNum(IF neg THEN 0 - r.val ELSE r.val), r.pos)

(* the number of consecutive backslashes that end just before position j,
   not looking before position i *)
BackslashRun(txt, i, j) ==
  LET runs == {n \in 0..(j - i) : \A h \in 1..n : txt[j - h] = 92}
  IN CHOOSE n \in runs : \A m \in runs : m <= n

(* a string body starts at i (after the opening quote): it ends at the first
   quote that no backslash escapes *)
ParseString(txt, i) ==
  LET closing == {j \in i..Len(txt) : txt[j] = 34 /\ BackslashRun(txt, i, j) % 2 = 0}
  IN IF closing = {} THEN ParseFail
     ELSE LET e == CHOOSE j \in closing : \A k \in closing : j <= k
              IsEscape(p) == txt[p] = 92 /\ BackslashRun(txt, i, p) % 2 = 0
              IsUEscape(p) == IsEscape(p) /\ txt[p + 1] = 117
              Covered(p) ==
                \/ p > i /\ IsEscape(p - 1)
                \/ \E h \in 2..5 : p - h >= i /\ IsUEscape(p - h)
              Valid(p) ==
                IF Covered(p) THEN TRUE
                ELSE IF IsUEscape(p)
                  THEN p + 5 < e /\ \A h \in 2..5 : HexVal(txt[p + h]) >= 0
                ELSE IF IsEscape(p) THEN txt[p + 1] \in {34, 92, 47, 98, 102, 110, 114, 116}
                ELSE txt[p] >= 32
              Out(p) ==
                IF Covered(p) THEN <<>>
                ELSE IF IsUEscape(p)
                  THEN << HexVal(txt[p + 2]) * 4096 + HexVal(txt[p + 3]) * 256
                          + HexVal(txt[p + 4]) * 16 + HexVal(txt[p + 5]) >>
                ELSE IF IsEscape(p) THEN
                  CASE txt[p + 1] = 98 -> <<8>>
                    [] txt[p + 1] = 102 -> <<12>>
                    [] txt[p + 1] = 110 -> <<10>>
                    [] txt[p + 1] = 114 -> <<13>>
                    [] txt[p + 1] = 116 -> <<9>>
                    [] OTHER -> <<txt[p + 1]>>
                ELSE <<txt[p]>>
          IN IF \A p \in i..(e - 1) : Valid(p)
             THEN ParseOk(JStr(Concat([h \in 1..(e - i) |-> Out(i + h - 1)])), e + 1)
             ELSE ParseFail

(* CreateDataProperty on a parsed object: a repeated key keeps its first
   position and takes the last value *)
ObjSet(o, k, val) ==
  IF \E i \in DOMAIN o : o[i].k = k
  THEN [i \in DOMAIN o |-> IF o[i].k = k THEN Prop(k, val) ELSE o[i]]
  ELSE Append(o, Prop(k, val))

RECURSIVE ParseValue(_, _), ParseElements(_, _, _), ParseMembers(_, _, _)

ParseValue(txt, i0) ==
  Bind(SkipWs(txt, i0), LAMBDA i :
    IF i > Len(txt) THEN ParseFail
    ELSE Bind(txt[i], LAMBDA c :
      CASE c = 34 -> ParseString(txt, i + 1)
        [] c = 45 \/ IsDigit(c) -> ParseNumber(txt, i)
        [] c = 91 ->
             Bind(SkipWs(txt, i + 1), LAMBDA n :
               IF n <= Len(txt) /\ txt[n] = 93 THEN ParseOk(JArr(<<>>), n + 1)
               ELSE ParseElements(txt, i + 1, <<>>))
        [] c = 123 ->
             Bind(SkipWs(txt, i + 1), LAMBDA n :
               IF n <= Len(txt) /\ txt[n] = 125 THEN ParseOk(JObj(<<>>), n + 1)
               ELSE ParseMembers(txt, i + 1, <<>>))
        [] c = 116 -> IF StartsAt(txt, i, Chars("true")) THEN ParseOk(JBool(TRUE), i + 4)
                      ELSE ParseFail
        [] c = 102 -> IF StartsAt(txt, i, Chars("false")) THEN ParseOk(JBool(FALSE), i + 5)
                      ELSE ParseFail
        [] c = 110 -> IF StartsAt(txt, i, Chars("null")) THEN ParseOk(JNull, i + 4)
                      ELSE ParseFail
        [] OTHER -> ParseFail))

ParseElements(txt, i, acc) ==
  Bind(ParseValue(txt, i), LAMBDA r :
    IF ~r.ok THEN ParseFail
    ELSE Bind(SkipWs(txt, r.pos), LAMBDA n :
      IF n > Len(txt) THEN ParseFail
      ELSE IF txt[n] = 44 THEN ParseElements(txt, n + 1, Append(acc, r.val))
      ELSE IF txt[n] = 93 THEN ParseOk(JArr(Append(acc, r.val)), n + 1)
      ELSE ParseFail))

ParseMembers(txt, i0, acc) ==
  Bind(SkipWs(txt, i0), LAMBDA i :
    IF i > Len(txt) \/ txt[i] # 34 THEN ParseFail
    ELSE Bind(ParseString(txt, i + 1), LAMBDA k :
      IF ~k.ok THEN ParseFail
      ELSE Bind(SkipWs(txt, k.pos), LAMBDA c :
        IF c > Len(txt) \/ txt[c] # 58 THEN ParseFail
        ELSE Bind(ParseValue(txt, c + 1), LAMBDA r :
          IF ~r.ok THEN ParseFail
          ELSE Bind(SkipWs(txt, r.pos), LAMBDA n :
            IF n > Len(txt) THEN ParseFail
            ELSE IF txt[n] = 44 THEN ParseMembers(txt, n + 1, ObjSet(acc, k.val.v, r.val))
            ELSE IF txt[n] = 125 THEN ParseOk(JObj(ObjSet(acc, k.val.v, r.val)), n + 1)
            ELSE ParseFail)))))

(* JSON.parse(txt): ok = FALSE stands for the SyntaxError it throws *)
JsonParse(txt) ==
  Bind(ParseValue(txt, 1), LAMBDA r :
    IF r.ok /\ SkipWs(txt, r.pos) > Len(txt) THEN r ELSE ParseFail)

(* safeParseJson(s), s a string or null: null when s is falsy or JSON.parse
   throws *)
safeParseJson(s) == IF ~Truthy(s) THEN JNull ELSE JsonParse(s.v).val

-----------------------------------------------------------------------------
(* UTF-8: TextEncoder.encode and TextDecoder.decode *)

(* TextEncoder.encode(s): a surrogate pair is one code point, an unpaired
   surrogate is encoded as U+FFFD *)
Utf8Encode(s) ==
  LET Utf8OfCodePoint(cp) ==
        CASE cp < 128 -> <<cp>>
          [] cp >= 128 /\ cp < 2048 -> <<192 + (cp \div 64), 128 + (cp % 64)>>
          [] cp >= 2048 /\ cp < 65536 ->
               <<224 + (cp \div 4096), 128 + ((cp \div 64) % 64), 128 + (cp % 64)>>
          [] OTHER ->
               <<240 + (cp \div 262144), 128 + ((cp \div 4096) % 64),
                 128 + ((cp \div 64) % 64), 128 + (cp % 64)>>
  IN Concat([i \in 1..Len(s) |->
    LET c == s[i] IN
    IF IsHighSurrogate(c) /\ i < Len(s) /\ IsLowSurrogate(s[i + 1])
    THEN Utf8OfCodePoint(65536 + (c - 55296) * 1024 + (s[i + 1] - 56320))
    ELSE IF IsLowSurrogate(c) /\ i > 1 /\ IsHighSurrogate(s[i - 1]) THEN <<>>
    ELSE IF IsHighSurrogate(c) \/ IsLowSurrogate(c) THEN Utf8OfCodePoint(65533)
    ELSE Utf8OfCodePoint(c)])

(* The WHATWG UTF-8 decoder, error mode replacement.  A lead byte at i
   needs Utf8Need bytes more; the h-th byte after it continues the sequence
   when it lies in the range the decoder allows at that point. *)
Utf8Need(x) ==
  CASE x >= 194 /\ x <= 223 -> 1
    [] x >= 224 /\ x <= 239 -> 2
    [] x >= 240 /\ x <= 244 -> 3
    [] OTHER -> 0

Utf8Continues(b, i, h) ==
  /\ i + h <= Len(b)
  /\ LET x == b[i + h]
         lo == IF h = 1 /\ b[i] = 224 THEN 160
               ELSE IF h = 1 /\ b[i] = 240 THEN 144 ELSE 128
         hi == IF h = 1 /\ b[i] = 237 THEN 159
               ELSE IF h = 1 /\ b[i] = 244 THEN 143 ELSE 191
     IN x >= lo /\ x <= hi

(* the number of bytes after the lead byte at i that the decoder consumes
   as part of its sequence *)
Utf8Taken(b, i) ==
  LET ok == {m \in 0..Utf8Need(b[i]) : \A h \in 1..m : Utf8Continues(b, i, h)}
  IN CHOOSE m \in ok : \A k \in ok : k <= m

Utf8Consumed(b, i) ==
  \E j \in 1..(i - 1) : i - j <= 3 /\ Utf8Need(b[j]) > 0 /\ i - j <= Utf8Taken(b, j)

Utf8Out(b, i) ==
  LET UnitsOfCodePoint(cp) ==
        IF cp < 65536 THEN <<cp>>
        ELSE <<55296 + ((cp - 65536) \div 1024), 56320 + ((cp - 65536) % 1024)>>
      x == b[i]
  IN
  IF Utf8Consumed(b, i) THEN <<>>
  ELSE IF x <= 127 THEN <<x>>
  ELSE IF Utf8Need(x) = 0 THEN <<65533>>
  ELSE IF Utf8Taken(b, i) < Utf8Need(x) THEN <<65533>>
  ELSE CASE Utf8Need(x) = 1 -> UnitsOfCodePoint((x % 32) * 64 + (b[i + 1] % 64))
         [] Utf8Need(x) = 2 ->
              UnitsOfCodePoint((x % 16) * 4096 + (b[i + 1] % 64) * 64 + (b[i + 2] % 64))
         [] Utf8Need(x) = 3 ->
              UnitsOfCodePoint((x % 8) * 262144 + (b[i + 1] % 64) * 4096
                               + (b[i + 2] % 64) * 64 + (b[i + 3] % 64))

(* new TextDecoder().decode(bytes): a leading byte order mark is dropped *)
Utf8Decode(b0) ==
  LET b == IF Len(b0) >= 3 /\ b0[1] = 239 /\ b0[2] = 187 /\ b0[3] = 191
           THEN SubSeq(b0, 4, Len(b0)) ELSE b0
  IN Concat([i \in 1..Len(b) |-> Utf8Out(b, i)])

-----------------------------------------------------------------------------
(* base64: btoa and atob *)

B64Alphabet == Chars("ABCDEFGHIJKLMNOPQRSTUVWXYZabcdefghijklmnopqrstuvwxyz0123456789+/")

B64Index(c) ==
  CASE c >= 65 /\ c <= 90 -> c - 65
    [] c >= 97 /\ c <= 122 -> c - 71
    [] c >= 48 /\ c <= 57 -> c + 4
    [] c = 43 -> 62
    [] c = 47 -> 63
    [] OTHER -> -1

(* btoa of the binary string whose char codes are the bytes b *)
btoa(b) ==
  Concat([g \in 1..((Len(b) + 2) \div 3) |->
    LET i == 3 * g - 2 IN
    IF i = Len(b) THEN
      << B64Alphabet[(b[i] \div 4) + 1], B64Alphabet[((b[i] % 4) * 16) + 1], 61, 61 >>
    ELSE IF i + 1 = Len(b) THEN
      << B64Alphabet[(b[i] \div 4) + 1],
         B64Alphabet[((b[i] % 4) * 16 + (b[i + 1] \div 16)) + 1],
         B64Alphabet[((b[i + 1] % 16) * 4) + 1], 61 >>
    ELSE
      << B64Alphabet[(b[i] \div 4) + 1],
         B64Alphabet[((b[i] % 4) * 16 + (b[i + 1] \div 16)) + 1],
         B64Alphabet[((b[i + 1] % 16) * 4 + (b[i + 2] \div 64)) + 1],
         B64Alphabet[(b[i + 2] % 64) + 1] >>])

(* atob (forgiving-base64 decode); ok = FALSE stands for the
   InvalidCharacterError it throws.  B64Groups(d): the bytes of the base64
   digits d (Len(d) % 4 # 1): a final group of two or three digits gives one
   or two bytes, its spare bits are dropped *)
atob(data) ==
  LET B64Groups(d) ==
        Concat([g \in 1..((Len(d) + 3) \div 4) |->
          LET i == 4 * g - 3
              rest == Len(d) - i + 1
              s(h) == B64Index(d[i + h])
          IN IF rest = 2 THEN << s(0) * 4 + (s(1) \div 16) >>
             ELSE IF rest = 3
               THEN << s(0) * 4 + (s(1) \div 16), (s(1) % 16) * 16 + (s(2) \div 4) >>
             ELSE << s(0) * 4 + (s(1) \div 16), (s(1) % 16) * 16 + (s(2) \div 4),
                     (s(2) % 4) * 64 + s(3) >>])
      d0 == SelectSeq(data, LAMBDA c : c \notin {9, 10, 12, 13, 32})
      n0 == Len(d0)
      d1 == IF n0 % 4 = 0 /\ n0 >= 1 /\ d0[n0] = 61
            THEN (IF n0 >= 2 /\ d0[n0 - 1] = 61 THEN SubSeq(d0, 1, n0 - 2)
                  ELSE SubSeq(d0, 1, n0 - 1))
            ELSE d0
  IN IF Len(d1) % 4 = 1 \/ \E i \in DOMAIN d1 : B64Index(d1[i]) < 0
     THEN [ok |-> FALSE, bytes |-> <<>>]
     ELSE [ok |-> TRUE, bytes |-> B64Groups(d1)]

ReplaceChar(s, from, to) == [i \in DOMAIN s |-> IF s[i] = from THEN to ELSE s[i]]

RECURSIVE StripTrailing(_, _)
StripTrailing(s, c) ==
  IF s # <<>> /\ s[Len(s)] = c THEN StripTrailing(SubSeq(s, 1, Len(s) - 1), c) ELSE s

toBase64Url(s) ==
  LET b64 == btoa(Utf8Encode(s)) IN
  StripTrailing(ReplaceChar(ReplaceChar(b64, 43, 45), 47, 95), 61)

(* ok = FALSE stands for the exception atob throws *)
fromBase64Url(s) ==
  Bind(ReplaceChar(ReplaceChar(s, 45, 43), 95, 47), LAMBDA b64 :
    Bind(atob(b64 \o (IF Len(b64) % 4 = 0 THEN <<>>
                      ELSE [i \in 1..(4 - (Len(b64) % 4)) |-> 61])), LAMBDA bin :
      IF bin.ok THEN [ok |-> TRUE, str |-> Utf8Decode(bin.bytes)]
      ELSE [ok |-> FALSE, str |-> <<>>]))

-----------------------------------------------------------------------------
(* Share links *)

ErrBadChars == "Invalid share link (bad characters)."

NoMessage == ""

ErrCouldNotParse == "Invalid share link (could not parse)."

ErrCouldNotDecode == "Invalid share link (could not decode)."

ErrCouldNotApply == "Invalid share link (could not apply selection)."

IsBase64Char(c) ==
  \/ c >= 65 /\ c <= 90
  \/ c >= 97 /\ c <= 122
  \/ c >= 48 /\ c <= 57
  \/ c = 43
  \/ c = 47

(* a character of the class [A-Za-z0-9_-] *)
IsTokenChar(c) ==
  \/ c >= 65 /\ c <= 90
  \/ c >= 97 /\ c <= 122
  \/ c >= 48 /\ c <= 57
  \/ c = 95
  \/ c = 45

(* /^[A-Za-z0-9_-]+$/.test(s) *)
(* readSharePayload, s = params.get('s') (null when the parameter is
   absent); error = "" when no error is returned; steps lists the calls
   made on s, in order *)
readSharePayload(s) ==
  IF ~Truthy(s) THEN [payload |-> JNull, error |-> "", steps |-> <<>>]
  ELSE IF ~(s.v # <<>> /\ \A i \in DOMAIN s.v : IsTokenChar(s.v[i]))
    THEN [payload |-> JNull, error |-> ErrBadChars, steps |-> <<"test">>]
  ELSE Bind(fromBase64Url(s.v), LAMBDA decoded :
    IF ~decoded.ok
    THEN [payload |-> JNull, error |-> ErrCouldNotDecode,
          steps |-> <<"test", "fromBase64Url">>]
    ELSE Bind(safeParseJson(JStr(decoded.str)), LAMBDA payload :
      IF ~Truthy(payload)
      THEN [payload |-> JNull, error |-> ErrCouldNotParse,
            steps |-> <<"test", "fromBase64Url", "safeParseJson">>]
      ELSE [payload |-> payload, error |-> "",
            steps |-> <<"test", "fromBase64Url", "safeParseJson">>]))

-----------------------------------------------------------------------------
(* String methods used by the page *)

IsWhiteSpace(c) == c \in {9, 10, 11, 12, 13, 32, 160, 8232, 8233, 65279}

(* String.prototype.trim *)
Trim(s) ==
  LET keep == {i \in DOMAIN s : ~IsWhiteSpace(s[i])} IN
  IF keep = {} THEN <<>>
  ELSE SubSeq(s, CHOOSE i \in keep : \A k \in keep : i <= k,
                 CHOOSE i \in keep : \A k \in keep : k <= i)

(* String.prototype.toLowerCase, on the Basic Latin letters *)
ToLowerCase(s) == [i \in DOMAIN s |-> IF s[i] >= 65 /\ s[i] <= 90 THEN s[i] + 32 ELSE s[i]]

(* String.prototype.includes *)
Includes(s, q) ==
  \E i \in 1..(Len(s) - Len(q) + 1) : \A h \in 1..Len(q) : s[i + h - 1] = q[h]

(* String.prototype.localeCompare under the root collation, for Basic Latin
   and symbols: white space and symbols before digits before letters; the
   letters compare without case first, and a lower-case letter comes before
   its upper-case form when the strings are otherwise equal *)
CompareBy(a, b, W(_)) ==
  LET n == IF Len(a) < Len(b) THEN Len(a) ELSE Len(b)
      diff == {i \in 1..n : W(a[i]) # W(b[i])}
  IN IF diff # {} THEN
       LET d == CHOOSE i \in diff : \A k \in diff : i <= k IN
       IF W(a[d]) < W(b[d]) THEN -1 ELSE 1
     ELSE IF Len(a) < Len(b) THEN -1
     ELSE IF Len(a) > Len(b) THEN 1
     ELSE 0

localeCompare(a, b) ==
  LET PrimaryWeight(c) ==
        CASE c >= 97 /\ c <= 122 -> 1000 + (c - 97)
          [] c >= 65 /\ c <= 90 -> 1000 + (c - 65)
          [] c >= 48 /\ c <= 57 -> 500 + (c - 48)
          [] IsWhiteSpace(c) -> 1
          [] c < 128 /\ ~(c >= 48 /\ c <= 57) /\ ~(c >= 65 /\ c <= 90)
             /\ ~(c >= 97 /\ c <= 122) /\ ~IsWhiteSpace(c) -> 2 + c
          [] OTHER -> 200
      CaseWeight(c) == IF c >= 65 /\ c <= 90 THEN 1 ELSE 0
      p == CompareBy(a, b, PrimaryWeight)
  IN IF p # 0 THEN p ELSE CompareBy(a, b, CaseWeight)

(* rows.sort((a, b) => a.flavor.localeCompare(b.flavor)): Array.prototype.sort
   is stable; row i goes after the rows that sort before it and the equal
   rows that precede it *)
SortByFlavor(rows) ==
  LET Before(k, i) ==
        LET c == localeCompare(rows[k].flavor, rows[i].flavor) IN
        c < 0 \/ (c = 0 /\ k < i)
      rank == [i \in DOMAIN rows |-> Cardinality({k \in DOMAIN rows : Before(k, i)}) + 1]
  IN IF Len(rows) <= 1 THEN rows
     ELSE [r \in DOMAIN rows |-> rows[CHOOSE i \in DOMAIN rows : rank[i] = r]]

-----------------------------------------------------------------------------
(* Allergens and categories *)

ALLERGENS ==
  << Chars("Egg"), Chars("Milk"), Chars("Peanuts"), Chars("Sesame"), Chars("Soy"),
     Chars("Tree Nuts"), Chars("Wheat") >>

Yes == Chars("Yes")

No == Chars("No")

Unknown == Chars("Unknown")

IceCream == Chars("Ice Cream")

MixIn == Chars("Mix-In")

Cake == Chars("Cake")

ConeBowl == Chars("Cone/Bowl")

Other == Chars("Other")

Category == {IceCream, MixIn, Cake, ConeBowl, Other}

(* normalizeValue(v): thrown = TRUE stands for the TypeError of calling
   .trim() on a value that is not a string *)
normalizeValue(v) ==
  IF v.t \in {"null", "undef"} THEN [thrown |-> FALSE, val |-> Unknown]
  ELSE IF v.t # "str" THEN [thrown |-> TRUE, val |-> Unknown]
  ELSE LET t == ToLowerCase(Trim(v.v)) IN
       [thrown |-> FALSE,
        val |-> IF t = Chars("yes") THEN Yes ELSE IF t = Chars("no") THEN No ELSE Unknown]

(* a classifier that tries the cake words before the ice cream words *)
inferCategoryCakeFirst(name) ==
  LET t == ToLowerCase(name)
      Has(words) == \E w \in words : Includes(t, Chars(w))
  IN IF Has({"cake", "brownie", "cupcake", "muffin", "pie"}) THEN Cake
     ELSE IF Has({"ice cream", "sorbet", "frozen dessert"}) THEN IceCream
     ELSE IF Has({"cone", "waffle", "bowl"}) THEN ConeBowl
     ELSE MixIn

(* inferCategory(name), name a string *)
inferCategory(name) ==
  LET t == ToLowerCase(name)
      IceCreamWords == {Chars("ice cream"), Chars("sorbet"), Chars("frozen dessert")}
      CakeWords ==
        {Chars("cake"), Chars("brownie"), Chars("cupcake"), Chars("muffin"), Chars("pie")}
      ConeWords == {Chars("cone"), Chars("waffle"), Chars("bowl")}
      MixInWords ==
        { Chars("cookies"), Chars("cookie"), Chars("sprinkles"), Chars("chips"),
          Chars("nuts"), Chars("almonds"), Chars("walnuts"), Chars("pecans"),
          Chars("cashews"), Chars("pistach"), Chars("peanuts"), Chars("m&m"),
          Chars("oreo"), Chars("fudge"), Chars("ganache"), Chars("caramel"),
          Chars("marshmallow"), Chars("whipped"), Chars("topping") }
  IN IF \E w \in IceCreamWords : Includes(t, w) THEN IceCream
     ELSE IF \E w \in CakeWords : Includes(t, w) THEN Cake
     ELSE IF \E w \in ConeWords : Includes(t, w) THEN ConeBowl
     ELSE IF \E w \in MixInWords : Includes(t, w) THEN MixIn
     ELSE MixIn

(* safeCategory(v), v any value *)
safeCategory(v) ==
  IF v.t = "str" /\ v.v \in Category THEN v.v ELSE MixIn

(* Object.fromEntries(ALLERGENS.map((a) => [a, f(a)])) *)
AllergenObject(f(_)) == JObj([i \in 1..Len(ALLERGENS) |-> Prop(ALLERGENS[i], f(ALLERGENS[i]))])

-----------------------------------------------------------------------------
(* State of the page *)

VARIABLES
  phase,          \* "mount": constructed, mount effects not yet run; "ready";
                  \* "unmounted"; "crashed": an initialiser threw; "codec",
                  \* "gate", "classify": function runs
  storage,        \* localStorage: key -> string or null
  urlS,           \* params.get('s'): string or null
  search,         \* useState: search
  masterRows,     \* useState: masterRows
  masterStatus,   \* useState: masterStatus
  manualRows,     \* useState: manualRows
  selected,       \* useState: selected, a Set in insertion order
  ui,             \* useState: ui
  printedAt,      \* useState: printedAt
  printMode,      \* useState: printMode
  shareUrl,       \* useState: shareUrl
  qrDataUrl,      \* useState: qrDataUrl
  qrHint,         \* useState: qrHint
  qrJobs,         \* the QRCode.toDataURL calls awaited, oldest first: each with
                  \* its url and the cancelled flag of its effect instance
  shareLoadError, \* useState: shareLoadError
  fetchState,     \* the request of the master load effect: "idle", "pending",
                  \* "settled"; "cancelled": pending, its effect cleaned up;
                  \* "discarded": settled after that
  pending,        \* the state slices changed since the effects last ran
  shareRead,      \* what the last readSharePayload() call did and returned
  io,             \* dialogs and outputs of the most recent event handler
  shared,         \* the selection and ui a share link was made from (history)
  fnArg,          \* the argument of the function applied (function runs)
  fnOut           \* its result (function runs)

vars ==
  << phase, storage, urlS, search, masterRows, masterStatus, manualRows, selected, ui,
     printedAt, printMode, shareUrl, qrDataUrl, qrHint, qrJobs,
     shareLoadError, fetchState, pending, shareRead, io,
     shared, fnArg, fnOut >>

STORAGE_SELECTED == "fac_selected_flavors_v1"

STORAGE_MANUAL == "fac_manual_flavors_v2"

STORAGE_UI == "fac_ui_v1"

StorageKeys == {STORAGE_SELECTED, STORAGE_MANUAL, STORAGE_UI}

UiDefaults ==
  [ splitByCategory |-> JBool(TRUE), activeCategories |-> <<>>,
    qrPrintHeadline |-> Chars("Food allergies"),
    qrPrintSupport |-> Chars("Show this chart on your phone") ]

(* the ui state as the value JSON.stringify sees *)
UiValue(u) ==
  JObj(<< Prop(Chars("splitByCategory"), u.splitByCategory),
          Prop(Chars("activeCategories"),
               JArr([i \in DOMAIN u.activeCategories |-> JStr(u.activeCategories[i])])),
          Prop(Chars("qrPrintHeadline"), JStr(u.qrPrintHeadline)),
          Prop(Chars("qrPrintSupport"), JStr(u.qrPrintSupport)) >>)

(* a ?? b *)
Nullish(a, b) == IF a.t \in {"null", "undef"} THEN b ELSE a

(* new Set(iterable items): the first occurrence of each value, in order *)
SetOf(items) ==
  SelectSeq([i \in DOMAIN items |->
              IF \E k \in 1..(i - 1) : items[k] = items[i] THEN JUndef ELSE items[i]],
            LAMBDA x : x # JUndef)

SetAdd(set, x) == IF x \in Range(set) THEN set ELSE Append(set, x)

SetDelete(set, x) == SelectSeq(set, LAMBDA y : y # x)

RECURSIVE SetAddAll(_, _)
SetAddAll(set, items) ==
  IF items = <<>> THEN set ELSE SetAddAll(SetAdd(set, Head(items)), Tail(items))

(* the code points of a string, as strings *)
CodePointStrings(s) ==
  SelectSeq([i \in DOMAIN s |->
              IF IsHighSurrogate(s[i]) /\ i < Len(s) /\ IsLowSurrogate(s[i + 1])
              THEN JStr(<<s[i], s[i + 1]>>)
              ELSE IF IsLowSurrogate(s[i]) /\ i > 1 /\ IsHighSurrogate(s[i - 1])
              THEN JUndef
              ELSE JStr(<<s[i]>>)],
            LAMBDA x : x # JUndef)

(* the useState initialiser of manualRows; thrown = TRUE stands for the
   TypeError of .map on a value that is not an array, of a property read on
   null, or of .trim on a value that is not a string *)
ManualRowOf(m) ==
  Bind(Trim(Nullish(GetProp(m, Chars("flavor")), JStr(<<>>)).v), LAMBDA flavor :
    Bind(GetProp(m, Chars("allergens")), LAMBDA al :
      [flavor |-> flavor,
       category |-> safeCategory(Nullish(GetProp(m, Chars("category")),
                                         JStr(inferCategory(flavor)))),
       allergens |-> AllergenObject(LAMBDA a : Nullish(GetProp(al, a), JStr(Unknown))),
       source |-> "manual"]))

ManualRowThrows(m) ==
  \/ m.t = "null"
  \/ Nullish(GetProp(m, Chars("flavor")), JStr(<<>>)).t # "str"

InitManualRows(raw) ==
  Bind(Nullish(safeParseJson(raw), JArr(<<>>)), LAMBDA manual :
    IF ~IsArray(manual) THEN [thrown |-> TRUE, rows |-> <<>>]
    ELSE IF \E i \in DOMAIN manual.v : ManualRowThrows(manual.v[i])
      THEN [thrown |-> TRUE, rows |-> <<>>]
    ELSE Bind(SelectSeq(manual.v, LAMBDA m :
                Trim(Nullish(GetProp(m, Chars("flavor")), JStr(<<>>)).v) # <<>>),
              LAMBDA kept :
                [thrown |-> FALSE,
                 rows |-> SortByFlavor([i \in DOMAIN kept |-> ManualRowOf(kept[i])])]))

(* the useState initialiser of selected; thrown = TRUE stands for the
   TypeError of new Set(x) on a value that is not iterable *)
InitSelected(raw) ==
  Bind(Nullish(safeParseJson(raw), JArr(<<>>)), LAMBDA selectedArr :
    CASE selectedArr.t = "arr" -> [thrown |-> FALSE, set |-> SetOf(selectedArr.v)]
      [] selectedArr.t = "str" ->
           [thrown |-> FALSE, set |-> SetOf(CodePointStrings(selectedArr.v))]
      [] OTHER -> [thrown |-> TRUE, set |-> <<>>])

(* the useState initialiser of ui *)
InitUi(raw) ==
  Bind(safeParseJson(raw), LAMBDA saved :
    LET savedActive == GetProp(saved, Chars("activeCategories"))
        savedHeadline == GetProp(saved, Chars("qrPrintHeadline"))
        savedSupport == GetProp(saved, Chars("qrPrintSupport"))
    IN [ splitByCategory |->
           Nullish(GetProp(saved, Chars("splitByCategory")), UiDefaults.splitByCategory),
         activeCategories |->
           IF IsArray(savedActive)
           THEN [i \in DOMAIN savedActive.v |-> safeCategory(savedActive.v[i])]
           ELSE UiDefaults.activeCategories,
         qrPrintHeadline |->
           IF savedHeadline.t = "str" THEN savedHeadline.v ELSE UiDefaults.qrPrintHeadline,
         qrPrintSupport |->
           IF savedSupport.t = "str" THEN savedSupport.v ELSE UiDefaults.qrPrintSupport ])

-----------------------------------------------------------------------------
(* Values derived on every render (useMemo) *)

(* each derived value is a function of the state slices it is computed
   from (the dependencies of its useMemo) *)
AllRowsOf(manual, master) ==
  SortByFlavor(manual \o
    [i \in DOMAIN master |->
       [flavor |-> master[i].flavor, category |-> master[i].category,
        allergens |-> master[i].allergens, source |-> "master"]])

allRows == AllRowsOf(manualRows, masterRows)

(* Array.from(set).sort((a, b) => a.localeCompare(b)) of the row categories *)
CategoriesOf(rows) ==
  LET present == {rows[i].category : i \in DOMAIN rows}
      rank == [c \in present |-> Cardinality({d \in present : localeCompare(d, c) < 0}) + 1]
  IN [r \in 1..Cardinality(present) |-> CHOOSE c \in present : rank[c] = r]

categories == CategoriesOf(allRows)

ActiveCategorySetOf(u, rows) ==
  IF Len(u.activeCategories) # 0 THEN Range(u.activeCategories)
  ELSE Range(CategoriesOf(rows))

activeCategorySet == ActiveCategorySetOf(ui, allRows)

FilteredRowsOf(rows, active, text) ==
  Bind(ToLowerCase(Trim(text)), LAMBDA q :
    SelectSeq(rows, LAMBDA r :
      IF r.category \notin active THEN FALSE
      ELSE IF q = <<>> THEN TRUE
      ELSE Includes(ToLowerCase(r.flavor), q)))

filteredRows == FilteredRowsOf(allRows, activeCategorySet, search)

SelectedRowsOf(rows, sel) ==
  Bind(Range(sel), LAMBDA names :
    SortByFlavor(SelectSeq(rows, LAMBDA r : JStr(r.flavor) \in names)))

selectedRows == SelectedRowsOf(allRows, selected)

OutputRowsFromFiltered(manual, master, sel, u, text) ==
  Bind(AllRowsOf(manual, master), LAMBDA rows :
    Bind(ActiveCategorySetOf(u, rows), LAMBDA active :
      SelectSeq(SelectedRowsOf(FilteredRowsOf(rows, active, text), sel),
                LAMBDA r : r.category \in active)))

OutputRowsUnfiltered(manual, master, sel, u, text) ==
  SelectedRowsOf(AllRowsOf(manual, master), sel)

(* outputRows in a state with these manual rows, master rows, selection, ui
   and search text *)
OutputRowsIn(manual, master, sel, u, text) ==
  Bind(AllRowsOf(manual, master), LAMBDA rows :
    Bind(ActiveCategorySetOf(u, rows), LAMBDA active :
      SelectSeq(SelectedRowsOf(rows, sel), LAMBDA r : r.category \in active)))

outputRows == OutputRowsIn(manualRows, masterRows, selected, ui, search)

masterFlavorCount == Len(masterRows)

(* a grouping whose keys are in the order of the category chips *)
groupByCategoryAlphabetical(rows) ==
  [k \in 1..5 |->
    Bind(<<Cake, ConeBowl, IceCream, MixIn, Other>>[k], LAMBDA cat :
      [k |-> cat, val |-> SortByFlavor(SelectSeq(rows, LAMBDA r : r.category = cat))])]

(* groupByCategory(rows): the object as its entries, in the order of its
   keys *)
groupByCategory(rows) ==
  [k \in 1..5 |->
    Bind(<<IceCream, MixIn, Cake, ConeBowl, Other>>[k], LAMBDA cat :
      [k |-> cat, val |-> SortByFlavor(SelectSeq(rows, LAMBDA r : r.category = cat))])]

(* the tables of the preview and of the printed page: title = <<>> for the
   table without a section title; no rows give the one-line notice and no
   table *)
previewTables ==
  Bind(outputRows, LAMBDA rows :
    IF Len(rows) = 0 THEN <<>>
    ELSE IF Truthy(ui.splitByCategory)
      THEN Bind(SelectSeq(groupByCategory(rows), LAMBDA e : Len(e.val) # 0), LAMBDA shown :
             [i \in DOMAIN shown |-> [title |-> shown[i].k, rows |-> shown[i].val]])
    ELSE << [title |-> <<>>, rows |-> rows] >>)

(* the tables of the PDF onDownloadPdf saves, one page for each category
   when the output is split *)
pdfTables ==
  Bind(outputRows, LAMBDA rows :
    IF Truthy(ui.splitByCategory)
      THEN Bind(SelectSeq(groupByCategory(rows), LAMBDA e : Len(e.val) # 0), LAMBDA shown :
             [i \in DOMAIN shown |-> [title |-> shown[i].k, rows |-> shown[i].val]])
    ELSE << [title |-> <<>>, rows |-> rows] >>)

-----------------------------------------------------------------------------
(* Share links *)

(* window.location.origin + window.location.pathname *)
LocationBase == Chars("https://fac.example/")

makeShareUrl(payload) == LocationBase \o Chars("?s=") \o toBase64Url(Stringify(payload))

SharePayloadOf(sel, u) ==
  JObj(<< Prop(Chars("v"), JNum(1)), Prop(Chars("selected"), JArr(sel)),
          Prop(Chars("ui"), UiValue(u)) >>)

(* the value of the parameter s of a share URL *)
ShareParam(url) == JStr(SubSeq(url, Len(LocationBase) + 4, Len(url)))

(* String(x), x a parsed JSON value; thrown = TRUE stands for the TypeError
   of converting an object whose own toString is not a function *)
RECURSIVE JsString(_)
JsString(x) ==
  CASE x.t = "str" -> [thrown |-> FALSE, val |-> x.v]
    [] x.t = "num" -> [thrown |-> FALSE, val |-> IntToStr(x.v)]
    [] x.t = "bool" -> [thrown |-> FALSE, val |-> IF x.v THEN Chars("true") ELSE Chars("false")]
    [] x.t = "null" -> [thrown |-> FALSE, val |-> Chars("null")]
    [] x.t = "undef" -> [thrown |-> FALSE, val |-> Chars("undefined")]
    [] x.t = "arr" ->
         LET parts == [i \in DOMAIN x.v |->
                        IF x.v[i].t \in {"null", "undef"}
                        THEN [thrown |-> FALSE, val |-> <<>>] ELSE JsString(x.v[i])]
         IN [thrown |-> \E i \in DOMAIN parts : parts[i].thrown,
             val |-> Join([i \in DOMAIN parts |-> parts[i].val], <<44>>)]
    [] x.t = "obj" ->
         IF \E i \in DOMAIN x.v : x.v[i].k \in {Chars("toString"), Chars("valueOf")}
         THEN [thrown |-> TRUE, val |-> <<>>]
         ELSE [thrown |-> FALSE, val |-> Chars("[object Object]")]

(* a share-load effect that fills the fields the link lacks with the
   defaults instead of the previous values *)
ApplyShareOverDefaults(payload, prevSelected, prev) ==
  Bind(GetProp(payload, Chars("selected")), LAMBDA sel :
  Bind(IF IsArray(sel) THEN [i \in DOMAIN sel.v |-> JsString(sel.v[i])] ELSE <<>>,
       LAMBDA names :
  Bind(\E i \in DOMAIN names : names[i].thrown, LAMBDA thrown :
  Bind(GetProp(payload, Chars("ui")), LAMBDA puiRaw :
  Bind(Truthy(puiRaw) /\ puiRaw.t = "obj", LAMBDA hasUi :
    LET pSplit == GetProp(puiRaw, Chars("splitByCategory"))
        pActive == GetProp(puiRaw, Chars("activeCategories"))
    IN [ thrown |-> thrown,
         setSelected |-> IsArray(sel) /\ ~thrown,
         selected |->
           IF IsArray(sel) /\ ~thrown
           THEN SetOf([i \in DOMAIN names |-> JStr(names[i].val)]) ELSE prevSelected,
         setUi |-> hasUi /\ ~thrown,
         ui |->
           IF hasUi /\ ~thrown
           THEN [ UiDefaults EXCEPT
                    !.splitByCategory = IF pSplit.t = "bool" THEN pSplit ELSE @,
                    !.activeCategories =
                      IF IsArray(pActive)
                      THEN [i \in DOMAIN pActive.v |-> safeCategory(pActive.v[i])]
                      ELSE @ ]
           ELSE prev ])))))

(* the body of the share-load effect after readSharePayload() returned a
   payload: set = the new selection and u = the new ui *)
ApplySharePayload(payload, prevSelected, prev) ==
  Bind(GetProp(payload, Chars("selected")), LAMBDA sel :
  Bind(IF IsArray(sel) THEN [i \in DOMAIN sel.v |-> JsString(sel.v[i])] ELSE <<>>,
       LAMBDA names :
  Bind(\E i \in DOMAIN names : names[i].thrown, LAMBDA thrown :
  Bind(GetProp(payload, Chars("ui")), LAMBDA puiRaw :
  Bind(Truthy(puiRaw) /\ puiRaw.t = "obj", LAMBDA hasUi :
    LET pSplit == GetProp(puiRaw, Chars("splitByCategory"))
        pActive == GetProp(puiRaw, Chars("activeCategories"))
        pHeadline == GetProp(puiRaw, Chars("qrPrintHeadline"))
        pSupport == GetProp(puiRaw, Chars("qrPrintSupport"))
    IN [ thrown |-> thrown,
         setSelected |-> IsArray(sel) /\ ~thrown,
         selected |->
           IF IsArray(sel) /\ ~thrown
           THEN SetOf([i \in DOMAIN names |-> JStr(names[i].val)]) ELSE prevSelected,
         setUi |-> hasUi /\ ~thrown,
         ui |->
           IF hasUi /\ ~thrown
           THEN [ splitByCategory |->
                    IF pSplit.t = "bool" THEN pSplit ELSE prev.splitByCategory,
                  activeCategories |->
                    IF IsArray(pActive)
                    THEN [i \in DOMAIN pActive.v |-> safeCategory(pActive.v[i])]
                    ELSE prev.activeCategories,
                  qrPrintHeadline |->
                    IF pHeadline.t = "str" THEN pHeadline.v ELSE prev.qrPrintHeadline,
                  qrPrintSupport |->
                    IF pSupport.t = "str" THEN pSupport.v ELSE prev.qrPrintSupport ]
           ELSE prev ])))))

-----------------------------------------------------------------------------
(* Effects *)

(* Array.prototype.sort() without a comparator: by the string conversion of
   the elements, in code unit order, stable *)
DefaultSort(items) ==
  Bind([i \in DOMAIN items |-> JsString(items[i]).val], LAMBDA key :
    LET Before(k, i) ==
          Bind(CompareBy(key[k], key[i], LAMBDA u : u), LAMBDA c : c < 0 \/ (c = 0 /\ k < i))
        rank == [i \in DOMAIN items |->
                   Cardinality({k \in DOMAIN items : Before(k, i)}) + 1]
    IN [r \in DOMAIN items |-> items[CHOOSE i \in DOMAIN items : rank[i] = r]])

(* the selection stored in the order of insertion of the Set *)
StoredSelectedInOrder(sel) == JStr(Stringify(JArr(sel)))

StoredSelected(sel) == JStr(Stringify(JArr(DefaultSort(sel))))

StoredManual(rows) ==
  JStr(Stringify(JArr([i \in DOMAIN rows |->
    JObj(<< Prop(Chars("flavor"), JStr(rows[i].flavor)),
            Prop(Chars("category"), JStr(rows[i].category)),
            Prop(Chars("allergens"), rows[i].allergens) >>)])))

StoredUi(u) == JStr(Stringify(UiValue(u)))

(* the three persistence effects, for the slices in deps *)
Persisted(st, deps, sel, rows, u) ==
  [k \in StorageKeys |->
    IF k = STORAGE_SELECTED /\ "selected" \in deps THEN StoredSelected(sel)
    ELSE IF k = STORAGE_MANUAL /\ "manual" \in deps THEN StoredManual(rows)
    ELSE IF k = STORAGE_UI /\ "ui" \in deps THEN StoredUi(u)
    ELSE st[k]]

NoShareRead == [s |-> JUndef, payload |-> JNull, error |-> "", steps |-> <<>>]

NotShared == [made |-> FALSE, sel |-> {}, ui |-> UiDefaults]

(* nowLabel(d): the local date and time of d, to the minute; the clock
   ticks twice a minute *)
nowLabel(t) == t \div 2

(* HomePage is constructed: the values the useState initialisers give; an
   exception in an initialiser leaves no page ("crashed") *)
Constructed(st, t) ==
  Bind(InitManualRows(st[STORAGE_MANUAL]), LAMBDA m :
    Bind(InitSelected(st[STORAGE_SELECTED]), LAMBDA sel :
      IF m.thrown \/ sel.thrown
      THEN [ phase |-> "crashed", manualRows |-> <<>>, selected |-> <<>>,
             ui |-> UiDefaults, printedAt |-> nowLabel(t) ]
      ELSE [ phase |-> "mount", manualRows |-> m.rows, selected |-> sel.set,
             ui |-> InitUi(st[STORAGE_UI]), printedAt |-> nowLabel(t) ]))

(* the page is opened for the first time: c = Constructed(st, t) *)
InitPage(st, s, c) ==
  /\ phase = c.phase
  /\ storage = st
  /\ urlS = s
  /\ search = <<>>
  /\ masterRows = <<>>
  /\ masterStatus = "loading"
  /\ manualRows = c.manualRows
  /\ selected = c.selected
  /\ ui = c.ui
  /\ printedAt = c.printedAt
  /\ printMode = "full"
  /\ shareUrl = <<>>
  /\ qrDataUrl = <<>>
  /\ qrHint = ""
  /\ qrJobs = <<>>
  /\ shareLoadError = ""
  /\ fetchState = "idle"
  /\ pending = {}
  /\ shareRead = NoShareRead
  /\ io = <<>>

(* the page is opened again: a new HomePage, c = Constructed(st, t), replaces
   the current one *)
LoadPage(st, s, c) ==
  /\ phase' = c.phase
  /\ storage' = st
  /\ urlS' = s
  /\ search' = <<>>
  /\ masterRows' = <<>>
  /\ masterStatus' = "loading"
  /\ manualRows' = c.manualRows
  /\ selected' = c.selected
  /\ ui' = c.ui
  /\ printedAt' = c.printedAt
  /\ printMode' = "full"
  /\ shareUrl' = <<>>
  /\ qrDataUrl' = <<>>
  /\ qrHint' = ""
  /\ qrJobs' = <<>>
  /\ shareLoadError' = ""
  /\ fetchState' = "idle"
  /\ pending' = {}
  /\ shareRead' = NoShareRead
  /\ io' = <<>>

MAX_SHARE_URL_LENGTH == 1500

MaxQrJobs == 2

(* the data URL of the QR code of url *)
QrImage(url) == Chars("data:image/png;") \o url

(* the share URL and QR effect for the selection sel and the ui u, after the
   cleanup of its last instance, whose call (if awaited) is cancelled; url is
   never empty; QRCode.toDataURL is awaited only for a url that is not too
   long *)
ShareQrEffect(sel, u) ==
  Bind(makeShareUrl(SharePayloadOf(sel, u)), LAMBDA url :
    Bind([i \in DOMAIN qrJobs |-> [qrJobs[i] EXCEPT !.cancelled = TRUE]], LAMBDA cleaned :
      /\ shareUrl' = url
      /\ IF Len(url) > MAX_SHARE_URL_LENGTH
         THEN /\ qrDataUrl' = <<>>
              /\ qrHint' = "Too many items selected for a scannable QR. Reduce selection."
              /\ qrJobs' = cleaned
         ELSE /\ qrJobs' = Append(cleaned, [url |-> url, cancelled |-> FALSE])
              /\ UNCHANGED <<qrDataUrl, qrHint>>))

(* the effects of the first render, in the order of their declaration: the
   master load starts, the share link is read and applied, the three slices
   are persisted and the share URL is made from the state of that render *)
MountEffects ==
  /\ phase = "mount"
  /\ Bind(readSharePayload(urlS), LAMBDA r :
       Bind(IF Truthy(r.payload) THEN ApplySharePayload(r.payload, selected, ui)
            ELSE [thrown |-> FALSE, setSelected |-> FALSE, selected |-> selected,
                  setUi |-> FALSE, ui |-> ui],
            LAMBDA a :
              /\ shareRead' = [s |-> urlS, payload |-> r.payload, error |-> r.error,
                               steps |-> r.steps]
              /\ shareLoadError' =
                   IF a.thrown THEN ErrCouldNotApply
                   ELSE IF r.error # "" THEN r.error ELSE ""
              /\ selected' = a.selected
              /\ ui' = a.ui
              /\ pending' = (IF a.setSelected THEN {"selected"} ELSE {})
                              \cup (IF a.setUi THEN {"ui"} ELSE {})))
  /\ masterStatus' = "loading"
  /\ fetchState' = "pending"
  /\ storage' = Persisted(storage, {"selected", "manual", "ui"}, selected, manualRows, ui)
  /\ ShareQrEffect(selected, ui)
  /\ phase' = "ready"
  /\ io' = <<>>
  /\ UNCHANGED <<urlS, search, masterRows, manualRows, printedAt, printMode, shared,
                 fnArg, fnOut>>

(* the effects whose dependencies changed in the last render; at most
   MaxQrJobs calls of QRCode.toDataURL are awaited at a time *)
RunEffects ==
  /\ phase = "ready"
  /\ pending # {}
  /\ storage' = Persisted(storage, pending, selected, manualRows, ui)
  /\ IF pending \cap {"selected", "ui"} # {}
     THEN Len(qrJobs) < MaxQrJobs /\ ShareQrEffect(selected, ui)
     ELSE UNCHANGED <<shareUrl, qrDataUrl, qrHint, qrJobs>>
  /\ pending' = {}
  /\ UNCHANGED <<phase, urlS, search, masterRows, masterStatus, manualRows, selected, ui,
                 printedAt, printMode, shareLoadError, fetchState, shareRead, io, shared,
                 fnArg, fnOut>>

(* a result that is stored whether or not its effect instance was cleaned
   up *)
QrSettlesUnguarded(i, ok) ==
  /\ phase \in {"ready", "unmounted"}
  /\ "print" \notin Range(io)
  /\ i \in DOMAIN qrJobs
  /\ qrJobs' = SubSeq(qrJobs, 1, i - 1) \o SubSeq(qrJobs, i + 1, Len(qrJobs))
  /\ IF ok THEN qrDataUrl' = QrImage(qrJobs[i].url) /\ qrHint' = ""
     ELSE qrDataUrl' = <<>> /\ qrHint' = "QR could not be generated for this selection."
  /\ UNCHANGED <<phase, storage, urlS, search, masterRows, masterStatus, manualRows,
                 selected, ui, printedAt, printMode, shareUrl, shareLoadError, fetchState,
                 pending, shareRead, io, shared, fnArg, fnOut>>

(* the i-th awaited call of QRCode.toDataURL settles: ok = it resolved; the
   continuation of an effect instance that was cleaned up stores nothing *)
QrSettles(i, ok) ==
  /\ phase \in {"ready", "unmounted"}
  /\ "print" \notin Range(io)
  /\ i \in DOMAIN qrJobs
  /\ qrJobs' = SubSeq(qrJobs, 1, i - 1) \o SubSeq(qrJobs, i + 1, Len(qrJobs))
  /\ IF qrJobs[i].cancelled THEN UNCHANGED <<qrDataUrl, qrHint>>
     ELSE IF ok THEN qrDataUrl' = QrImage(qrJobs[i].url) /\ qrHint' = ""
     ELSE qrDataUrl' = <<>> /\ qrHint' = "QR could not be generated for this selection."
  /\ UNCHANGED <<phase, storage, urlS, search, masterRows, masterStatus, manualRows,
                 selected, ui, printedAt, printMode, shareUrl, shareLoadError, fetchState,
                 pending, shareRead, io, shared, fnArg, fnOut>>

(* HomePage is unmounted: the cleanups of the master load effect and of the
   share URL and QR effect set their cancelled flags *)
Unmount ==
  /\ phase = "ready"
  /\ "print" \notin Range(io)
  /\ phase' = "unmounted"
  /\ fetchState' = IF fetchState = "pending" THEN "cancelled" ELSE fetchState
  /\ qrJobs' = [i \in DOMAIN qrJobs |-> [qrJobs[i] EXCEPT !.cancelled = TRUE]]
  /\ UNCHANGED <<storage, urlS, search, masterRows, masterStatus, manualRows, selected,
                 ui, printedAt, printMode, shareUrl, qrDataUrl, qrHint, shareLoadError,
                 pending, shareRead, io, shared, fnArg, fnOut>>

(* an event handler runs on a rendered page whose effects have run; the
   print dialog is modal, so afterprint comes before any other event *)
Interactive == phase = "ready" /\ pending = {} /\ "print" \notin Range(io)

-----------------------------------------------------------------------------
(* The master load *)

(* the rows made of the body of GET /api/flavors; thrown = TRUE stands for
   an exception inside the try block (the bodies of this model never hold a
   single row without a flavor) *)
MasterRowsOf(json) ==
  LET rows == GetProp(json, Chars("rows"))
      Bad(r) ==
        \/ r.t \in {"null", "undef"}
        \/ GetProp(r, Chars("flavor")).t # "str"
        \/ \E i \in DOMAIN ALLERGENS :
             normalizeValue(Nullish(GetProp(GetProp(r, Chars("allergens")), ALLERGENS[i]),
                                    JStr(Unknown))).thrown
      RowOf(r) ==
        [ flavor |-> GetProp(r, Chars("flavor")).v,
          category |-> inferCategory(GetProp(r, Chars("flavor")).v),
          allergens |-> AllergenObject(LAMBDA a :
            JStr(normalizeValue(Nullish(GetProp(GetProp(r, Chars("allergens")), a),
                                        JStr(Unknown))).val)) ]
  IN IF ~IsArray(rows) \/ \E i \in DOMAIN rows.v : Bad(rows.v[i])
     THEN [thrown |-> TRUE, rows |-> <<>>]
     ELSE [thrown |-> FALSE, rows |-> SortByFlavor([i \in DOMAIN rows.v |-> RowOf(rows.v[i])])]

(* a load whose failure leaves the status as it was *)
FetchSettlesQuietly(res) ==
  /\ phase \in {"ready", "unmounted"}
  /\ fetchState \in {"pending", "cancelled"}
  /\ "print" \notin Range(io)
  /\ fetchState' = IF fetchState = "cancelled" THEN "discarded" ELSE "settled"
  /\ LET m == MasterRowsOf(res.json) IN
     IF fetchState = "cancelled" THEN UNCHANGED <<masterRows, masterStatus>>
     ELSE IF res.ok /\ ~m.thrown
     THEN masterRows' = m.rows /\ masterStatus' = "ready"
     ELSE masterRows' = <<>> /\ masterStatus' = masterStatus
  /\ UNCHANGED <<phase, storage, urlS, search, manualRows, selected, ui, printedAt,
                 printMode, shareUrl, qrDataUrl, qrHint, qrJobs,
                 shareLoadError, pending, shareRead, io, shared,
                 fnArg, fnOut>>

(* the request settles: res = [ok |-> the fetch resolved with an OK status,
   json |-> the parsed body]; window.print() blocks the page while its
   dialog is open; after the cleanup of the effect nothing is stored *)
FetchSettles(res) ==
  /\ phase \in {"ready", "unmounted"}
  /\ fetchState \in {"pending", "cancelled"}
  /\ "print" \notin Range(io)
  /\ fetchState' = IF fetchState = "cancelled" THEN "discarded" ELSE "settled"
  /\ LET m == MasterRowsOf(res.json) IN
     IF fetchState = "cancelled" THEN UNCHANGED <<masterRows, masterStatus>>
     ELSE IF res.ok /\ ~m.thrown
     THEN masterRows' = m.rows /\ masterStatus' = "ready"
     ELSE masterRows' = <<>> /\ masterStatus' = "error"
  /\ UNCHANGED <<phase, storage, urlS, search, manualRows, selected, ui, printedAt,
                 printMode, shareUrl, qrDataUrl, qrHint, qrJobs,
                 shareLoadError, pending, shareRead, io, shared,
                 fnArg, fnOut>>

-----------------------------------------------------------------------------
(* Event handlers: selection, search and filters *)

SelectionFrame ==
  /\ pending' = {"selected"}
  /\ io' = <<>>
  /\ UNCHANGED <<phase, storage, urlS, search, masterRows, masterStatus, manualRows, ui,
                 printedAt, printMode, shareUrl, qrDataUrl, qrHint, qrJobs,
                 shareLoadError, fetchState, shareRead,
                 shared, fnArg, fnOut>>

UiFrame ==
  /\ pending' = {"ui"}
  /\ io' = <<>>
  /\ UNCHANGED <<phase, storage, urlS, search, masterRows, masterStatus, manualRows,
                 selected, printedAt, printMode, shareUrl, qrDataUrl, qrHint, qrJobs,
                 shareLoadError, fetchState,
                 shareRead, shared, fnArg, fnOut>>

FlavorNames(rows) == [i \in DOMAIN rows |-> JStr(rows[i].flavor)]

toggleFlavor(name) ==
  /\ Interactive
  /\ selected' = IF name \in Range(selected) THEN SetDelete(selected, name)
                 ELSE SetAdd(selected, name)
  /\ SelectionFrame

clearSelection ==
  /\ Interactive
  /\ selected' = <<>>
  /\ SelectionFrame

(* a handler that selects the shown flavors and no other *)
selectShownOnly ==
  /\ Interactive
  /\ selected' = SetOf(FlavorNames(filteredRows))
  /\ SelectionFrame

selectAllShown ==
  /\ Interactive
  /\ selected' = SetAddAll(selected, FlavorNames(filteredRows))
  /\ SelectionFrame

clearShown ==
  /\ Interactive
  /\ selected' = SelectSeq(selected, LAMBDA x : x \notin Range(FlavorNames(filteredRows)))
  /\ SelectionFrame

(* the names of the master rows are added to the selection *)
selectAllMasterAdded ==
  /\ Interactive
  /\ selected' = SetAddAll(selected, FlavorNames(masterRows))
  /\ SelectionFrame

selectAllMaster ==
  /\ Interactive
  /\ selected' = SetOf(FlavorNames(masterRows))
  /\ SelectionFrame

setSearch(text) ==
  /\ Interactive
  /\ search' = text
  /\ io' = <<>>
  /\ UNCHANGED <<phase, storage, urlS, masterRows, masterStatus, manualRows, selected, ui,
                 printedAt, printMode, shareUrl, qrDataUrl, qrHint, qrJobs,
                 shareLoadError, fetchState, pending,
                 shareRead, shared, fnArg, fnOut>>

(* the "Split by category" checkbox *)
setSplitByCategory(checked) ==
  /\ Interactive
  /\ checked = ~Truthy(ui.splitByCategory)
  /\ ui' = [ui EXCEPT !.splitByCategory = JBool(checked)]
  /\ UiFrame

(* a category chip *)
toggleCategory(c) ==
  /\ Interactive
  /\ c \in Range(categories)
  /\ LET base == IF Len(ui.activeCategories) # 0 THEN ui.activeCategories ELSE categories
         current == SetOf(base)
     IN ui' = [ui EXCEPT !.activeCategories =
                 IF c \in Range(current) THEN SetDelete(current, c) ELSE SetAdd(current, c)]
  /\ UiFrame

(* the "All" chip *)
resetCategories ==
  /\ Interactive
  /\ ui' = [ui EXCEPT !.activeCategories = <<>>]
  /\ UiFrame

addManualAppended(rec) ==
  /\ Interactive
  /\ LET flavor == Trim(rec.flavor) IN
     IF flavor = <<>>
     THEN UNCHANGED <<manualRows, selected, pending>>
     ELSE /\ manualRows' =
               SortByFlavor(Append(manualRows,
                 [flavor |-> flavor, category |-> rec.category,
                  allergens |-> rec.allergens, source |-> "manual"]))
          /\ selected' = SetAdd(selected, JStr(flavor))
          /\ pending' = {"manual", "selected"}
  /\ io' = <<>>
  /\ UNCHANGED <<phase, storage, urlS, search, masterRows, masterStatus, ui, printedAt,
                 printMode, shareUrl, qrDataUrl, qrHint, qrJobs,
                 shareLoadError, fetchState, shareRead, shared,
                 fnArg, fnOut>>

addManualFlavor(rec) ==
  /\ Interactive
  /\ LET flavor == Trim(rec.flavor) IN
     IF flavor = <<>>
     THEN UNCHANGED <<manualRows, selected, pending>>
     ELSE /\ manualRows' =
               SortByFlavor(Append(SelectSeq(manualRows, LAMBDA q : q.flavor # flavor),
                 [flavor |-> flavor, category |-> rec.category,
                  allergens |-> rec.allergens, source |-> "manual"]))
          /\ selected' = SetAdd(selected, JStr(flavor))
          /\ pending' = {"manual", "selected"}
  /\ io' = <<>>
  /\ UNCHANGED <<phase, storage, urlS, search, masterRows, masterStatus, ui, printedAt,
                 printMode, shareUrl, qrDataUrl, qrHint, qrJobs,
                 shareLoadError, fetchState, shareRead, shared,
                 fnArg, fnOut>>

-----------------------------------------------------------------------------
(* Print and export *)

ConfirmBelowOrEqual(selectedCount, totalCount) ==
  ~(totalCount <= 0) /\ ~(selectedCount > totalCount)

ConfirmSwapped(selectedCount, totalCount) ==
  ~(selectedCount <= 0) /\ ~(totalCount >= selectedCount)

(* confirmIfMissing(selectedCount, totalCount) reaches window.confirm *)
ConfirmAsked(selectedCount, totalCount) ==
  ~(totalCount <= 0) /\ ~(selectedCount >= totalCount)

confirmIgnored(selectedCount, totalCount, answer) ==
  IF ~(totalCount <= 0) /\ ~(selectedCount >= totalCount)
  THEN [dialogs |-> <<IF answer THEN "confirm:ok" ELSE "confirm:cancel">>, result |-> TRUE]
  ELSE [dialogs |-> <<>>, result |-> TRUE]

(* confirmIfMissing: answer = what window.confirm returns when it is called *)
confirmIfMissing(selectedCount, totalCount, answer) ==
  IF ConfirmAsked(selectedCount, totalCount)
  THEN [dialogs |-> <<IF answer THEN "confirm:ok" ELSE "confirm:cancel">>, result |-> answer]
  ELSE [dialogs |-> <<>>, result |-> TRUE]

MaxTick == 2

(* the clock ticks a handler can read: time does not run backwards *)
Ticks == {t \in 0..MaxTick : nowLabel(t) >= printedAt}

ExportFrame ==
  UNCHANGED <<phase, storage, urlS, search, masterRows, masterStatus, manualRows, selected,
              ui, shareUrl, qrDataUrl, qrHint, qrJobs,
              shareLoadError, fetchState, pending, shareRead, shared,
              fnArg, fnOut>>

onPrint(t, answer) ==
  /\ Interactive
  /\ printedAt' = nowLabel(t)
  /\ printMode' = "full"
  /\ LET g == confirmIfMissing(Len(selectedRows), masterFlavorCount, answer) IN
     io' = IF g.result THEN g.dialogs \o <<"print">> ELSE g.dialogs
  /\ ExportFrame

onPrintQr(t) ==
  /\ Interactive
  /\ printedAt' = nowLabel(t)
  /\ printMode' = "qr"
  /\ io' = <<"print">>
  /\ ExportFrame

onDownloadPdf(t, answer) ==
  /\ Interactive
  /\ printedAt' = nowLabel(t)
  /\ LET g == confirmIfMissing(Len(selectedRows), masterFlavorCount, answer) IN
     io' = IF g.result THEN g.dialogs \o <<"save">> ELSE g.dialogs
  /\ UNCHANGED printMode
  /\ ExportFrame

(* the afterprint listener, after a print *)
onAfter ==
  /\ phase = "ready"
  /\ "print" \in Range(io)
  /\ printMode' = "full"
  /\ io' = <<>>
  /\ UNCHANGED printedAt
  /\ ExportFrame

-----------------------------------------------------------------------------
(* Page loads *)

EmptyStorage == [k \in StorageKeys |-> JNull]

(* the current share link is followed, once in a run: in this browser (its
   storage) or in another one (empty storage) *)
OpenShareLink(sameBrowser, t) ==
  /\ Interactive
  /\ ~shared.made
  /\ shared' = [made |-> TRUE, sel |-> Range(selected), ui |-> ui]
  /\ Bind(IF sameBrowser THEN storage ELSE EmptyStorage, LAMBDA st :
       LoadPage(st, ShareParam(shareUrl), Constructed(st, t)))
  /\ UNCHANGED <<fnArg, fnOut>>

(* the page is opened again in this browser, without an s parameter: a new
   HomePage is constructed from what localStorage holds *)
Reload(t) ==
  /\ phase = "ready"
  /\ "print" \notin Range(io)
  /\ LoadPage(storage, JNull, Constructed(storage, t))
  /\ UNCHANGED <<shared, fnArg, fnOut>>

-----------------------------------------------------------------------------
(* Inputs of the session *)

MilkYes == AllergenObject(LAMBDA a : JStr(IF a = Chars("Milk") THEN Yes ELSE No))

(* bodies GET /api/flavors can answer with *)
ApiBody ==
  LET ApiRow(flavor, milk) ==
        JObj(<< Prop(Chars("flavor"), JStr(flavor)),
                Prop(Chars("allergens"),
                     AllergenObject(LAMBDA a : JStr(IF a = Chars("Milk") THEN milk ELSE Chars("no")))) >>)
  IN JObj(<< Prop(Chars("rows"),
              JArr(<< ApiRow(Chars("Sorbet"), Chars("No")),
                      ApiRow(Chars("Oreo"), Chars("YES")) >>)) >>)

(* the answers to the request: the body of the route; no answer or a status
   that is not OK; a body that is not JSON (res.json() rejects, no value is
   parsed); a JSON body without rows; rows that hold null *)
FetchResults ==
  { [ok |-> TRUE, json |-> ApiBody], [ok |-> FALSE, json |-> JNull],
    [ok |-> TRUE, json |-> JUndef], [ok |-> TRUE, json |-> JObj(<<>>)],
    [ok |-> TRUE, json |-> JObj(<< Prop(Chars("rows"), JArr(<<JNull>>)) >>)] }

(* records the "Add flavor" dialog passes to addManualFlavor: the name is
   trimmed and not empty *)
ManualInputs ==
  { [flavor |-> Chars("Mint"), category |-> IceCream, allergens |-> MilkYes] }

NotApplied == [applied |-> FALSE]

-----------------------------------------------------------------------------
(* The session: one page, opened with empty storage and no share link *)

Init ==
  /\ InitPage(EmptyStorage, JNull, Constructed(EmptyStorage, 0))
  /\ shared = NotShared
  /\ fnArg = JNull
  /\ fnOut = NotApplied

(* the QR code is drawn before the next event of the user *)
Next ==
  \/ MountEffects
  \/ RunEffects
  \/ \E res \in FetchResults : FetchSettles(res)
  \/ \E i \in 1..MaxQrJobs : QrSettles(i, TRUE)
  \/ \E name \in Range(FlavorNames(filteredRows)) : qrJobs = <<>> /\ toggleFlavor(name)
  \/ qrJobs = <<>> /\ clearSelection
  \/ qrJobs = <<>> /\ selectAllShown
  \/ qrJobs = <<>> /\ clearShown
  \/ qrJobs = <<>> /\ selectAllMaster
  \/ \E text \in {<<>>, Chars(" SO")} : qrJobs = <<>> /\ setSearch(text)
  \/ \E checked \in BOOLEAN : qrJobs = <<>> /\ setSplitByCategory(checked)
  \/ \E c \in Category : qrJobs = <<>> /\ toggleCategory(c)
  \/ qrJobs = <<>> /\ resetCategories
  \/ \E rec \in ManualInputs : qrJobs = <<>> /\ addManualFlavor(rec)
  \/ \E t \in Ticks, answer \in BOOLEAN : qrJobs = <<>> /\ onPrint(t, answer)
  \/ \E t \in Ticks : qrJobs = <<>> /\ onPrintQr(t)
  \/ \E t \in Ticks, answer \in BOOLEAN : qrJobs = <<>> /\ onDownloadPdf(t, answer)
  \/ qrJobs = <<>> /\ onAfter

Spec == Init /\ [][Next]_vars

-----------------------------------------------------------------------------
(* Page loads: what localStorage and the s parameter can hold when the page
   is opened, and a share link followed from one page to the next *)

SavedStorage ==
  [k \in StorageKeys |->
    IF k = STORAGE_UI
      THEN JStr(Chars("{\"splitByCategory\":false,\"activeCategories\":[\"Cake\"]}"))
    ELSE IF k = STORAGE_SELECTED THEN JStr(Chars("[\"Mint\"]"))
    ELSE JNull]

TamperedStorage ==
  [k \in StorageKeys |->
    IF k = STORAGE_UI THEN JStr(Chars("{\"splitByCategory\":0}"))
    ELSE IF k = STORAGE_SELECTED THEN JStr(Chars("[\"Sorbet\",1]"))
    ELSE JNull]

(* values of the s parameter; LinkOf(json): a link made by hand from a JSON
   text *)
LoadTokens ==
  LET LinkOf(json) == JStr(toBase64Url(Chars(json)))
  IN { JNull, JStr(<<>>),
       JStr(Chars("a+b")), JStr(Chars("abcde")), JStr(Chars("abcd")),
       LinkOf("0"),
       LinkOf("{\"selected\":[{\"toString\":1}],\"ui\":{\"splitByCategory\":true}}"),
       LinkOf("{\"selected\":[\"Oreo\",7],\"ui\":{\"splitByCategory\":true,\"activeCategories\":[\"Pie\"]}}"),
       LinkOf("{\"selected\":\"Oreo\",\"ui\":[\"Cake\"]}"),
       LinkOf("{\"selected\":{\"0\":\"Oreo\"},\"ui\":\"Cake\"}"),
       LinkOf("{\"ui\":{\"splitByCategory\":\"true\",\"activeCategories\":[\"Other\",\"cake\",3]}}"),
       LinkOf("{\"selected\":[\"Oreo\"],\"ui\":{\"splitByCategory\":true,\"activeCategories\":\"Cake\"}}") }

InitLoad ==
  /\ \E st \in {EmptyStorage, SavedStorage, TamperedStorage}, s \in LoadTokens : InitPage(st, s, Constructed(st, 0))
  /\ shared = NotShared
  /\ fnArg = JNull
  /\ fnOut = NotApplied

(* the user changes the selection and the ui on the first page only, and
   after the QR code is drawn *)
SpecLoad ==
  InitLoad
    /\ [][\/ MountEffects
          \/ RunEffects
          \/ \E res \in FetchResults : FetchSettles(res)
          \/ \E i \in 1..MaxQrJobs : QrSettles(i, TRUE)
          \/ \E name \in Range(FlavorNames(filteredRows)) :
               qrJobs = <<>> /\ ~shared.made /\ toggleFlavor(name)
          \/ \E checked \in BOOLEAN :
               qrJobs = <<>> /\ ~shared.made /\ setSplitByCategory(checked)
          \/ \E sameBrowser \in BOOLEAN :
               qrJobs = <<>> /\ OpenShareLink(sameBrowser, 0)]_vars

-----------------------------------------------------------------------------
(* Startup: the page is opened on entries of localStorage that this page did
   not write, and manual flavors are added to what was restored *)

(* texts found under the key k: malformed JSON, null, a wrong primitive
   type, an object for an array, an array for an object, elements of the
   wrong type, and entries of the right shape *)
StoredValues(k) ==
  CASE k = STORAGE_SELECTED ->
         { JNull, JStr(Chars("{")), JStr(Chars("null")), JStr(Chars("5")),
           JStr(Chars("\"ab\"")), JStr(Chars("{}")), JStr(Chars("[\"Mint\",1]")),
           JStr(Chars("[\"Mint\",\"Mint\"]")) }
    [] k = STORAGE_MANUAL ->
         { JNull, JStr(Chars("{")), JStr(Chars("null")), JStr(Chars("5")),
           JStr(Chars("{}")), JStr(Chars("[null]")), JStr(Chars("[7]")),
           JStr(Chars("[{\"flavor\":5}]")),
           JStr(Chars("[{\"flavor\":\"Mint\",\"allergens\":{\"Milk\":\"maybe\"}}]")),
           JStr(Chars("[{\"flavor\":\"Mint\",\"allergens\":[3]}]")),
           JStr(Chars("[{\"flavor\":\"Mint\"},{\"flavor\":\" Mint\",\"category\":\"Pie\"}]")),
           JStr(Chars("[{\"flavor\":\"Mint\",\"category\":\"Cake\"},"
                      \o "{\"flavor\":\"Apple\",\"category\":\"Other\",\"allergens\":{\"Egg\":\"Yes\"}}]")) }
    [] k = STORAGE_UI ->
         { JNull, JStr(Chars("{")), JStr(Chars("null")), JStr(Chars("5")),
           JStr(Chars("[]")), JStr(Chars("{\"splitByCategory\":0}")),
           JStr(Chars("{\"splitByCategory\":\"yes\"}")),
           JStr(Chars("{\"activeCategories\":[\"Pie\",3,\"Cake\"]}")),
           JStr(Chars("{\"activeCategories\":{}}")) }

InitStart ==
  /\ \E k \in StorageKeys : \E v \in StoredValues(k) :
       Bind([j \in StorageKeys |-> IF j = k THEN v ELSE JNull], LAMBDA st :
         InitPage(st, JNull, Constructed(st, 0)))
  /\ shared = NotShared
  /\ fnArg = JNull
  /\ fnOut = NotApplied

(* addManualFlavor is given padded and blank names too (the dialog trims the
   name and refuses a blank one before it calls onAdd) *)
AddInputs ==
  ManualInputs
    \cup { [flavor |-> Chars(" Mint "), category |-> Cake,
            allergens |-> AllergenObject(LAMBDA a : JStr(Unknown))],
           [flavor |-> Chars("  "), category |-> MixIn, allergens |-> MilkYes] }

(* the page is opened on a stored value; the user adds manual flavors,
   selects the flavors shown and switches the split of the output, each
   after the QR code is drawn *)
SpecStart ==
  InitStart /\ [][\/ MountEffects
                  \/ RunEffects
                  \/ \E res \in FetchResults : FetchSettles(res)
                  \/ \E i \in 1..MaxQrJobs : QrSettles(i, TRUE)
                  \/ \E rec \in AddInputs : qrJobs = <<>> /\ addManualFlavor(rec)
                  \/ qrJobs = <<>> /\ selectAllShown
                  \/ \E checked \in BOOLEAN :
                       qrJobs = <<>> /\ setSplitByCategory(checked)]_vars

-----------------------------------------------------------------------------
(* Function runs: a function of the page applied to enumerated arguments *)

(* no page is open: fnArg is the argument, fnOut the result *)
FunctionRun(name, arg) ==
  /\ phase = name
  /\ storage = EmptyStorage
  /\ urlS = JNull
  /\ search = <<>>
  /\ masterRows = <<>>
  /\ masterStatus = "loading"
  /\ manualRows = <<>>
  /\ selected = <<>>
  /\ ui = UiDefaults
  /\ printedAt = 0
  /\ printMode = "full"
  /\ shareUrl = <<>>
  /\ qrDataUrl = <<>>
  /\ qrHint = ""
  /\ qrJobs = <<>>
  /\ shareLoadError = ""
  /\ fetchState = "idle"
  /\ pending = {}
  /\ shareRead = NoShareRead
  /\ io = <<>>
  /\ shared = NotShared
  /\ fnArg = arg
  /\ fnOut = NotApplied

FunctionFrame ==
  UNCHANGED <<phase, storage, search, masterRows, masterStatus, manualRows, selected, ui,
              printedAt, printMode, shareUrl, qrDataUrl, qrHint, qrJobs,
              shareLoadError, fetchState, pending, io,
              shared, fnArg>>

GateMaxCount == 6

InitGate ==
  \E selectedCount \in 0..GateMaxCount, totalCount \in 0..GateMaxCount :
    FunctionRun("gate", [selectedCount |-> selectedCount, totalCount |-> totalCount])

(* confirmIfMissing(selectedCount, totalCount); the user answers a dialog
   that is shown with answer *)
GateApply(answer) ==
  /\ phase = "gate"
  /\ ~fnOut.applied
  /\ Bind(confirmIfMissing(fnArg.selectedCount, fnArg.totalCount, answer), LAMBDA g :
       fnOut' = [applied |-> TRUE, dialogs |-> g.dialogs, result |-> g.result])
  /\ UNCHANGED <<urlS, shareRead>>
  /\ FunctionFrame

SpecGate == InitGate /\ [][\E answer \in BOOLEAN : GateApply(answer)]_vars

CodecMaxLen == 2

RECURSIVE SeqsUpTo(_, _)
SeqsUpTo(S, n) ==
  IF n = 0 THEN {<<>>}
  ELSE Bind(SeqsUpTo(S, n - 1), LAMBDA shorter :
         shorter \cup {Append(q, x) : q \in {r \in shorter : Len(r) = n - 1}, x \in S})

(* the values given to the codec: JSON values, and arrays that hold
   undefined, which JSON.stringify writes as null *)
CodecValues ==
  { JNull, JBool(FALSE), JBool(TRUE), JNum(0), JNum(7), JNum(-3), JStr(<<>>),
    JStr(Chars("Oreo")),
    JStr(Chars("Cookies") \o <<8482>>),          \* a trade mark sign
    JStr(Chars("Cr") \o <<232>> \o Chars("me")), \* e with grave accent
    JStr(<<34, 92, 10>> \o Chars("</a>")),       \* quote, backslash, line feed
    JStr(<<55356, 57190>>),                      \* a surrogate pair
    JStr(<<55356>>),                             \* a lone surrogate
    JStr(<<65279>> \o Chars("x")) }              \* a leading U+FEFF
    \cup {JArr(q) : q \in SeqsUpTo({JNull, JNum(0), JStr(Chars("Oreo")), JStr(<<8482>>),
                                    JUndef}, CodecMaxLen)}
    \cup { JObj(<<>>),
           SharePayloadOf(<<JStr(Chars("Oreo")), JStr(<<8482>>)>>, UiDefaults) }

InitCodec == \E v \in CodecValues : FunctionRun("codec", v)

(* the encoding half of makeShareUrl *)
CodecEncode ==
  /\ phase = "codec"
  /\ ~fnOut.applied
  /\ Bind(JStr(toBase64Url(Stringify(fnArg))), LAMBDA token :
       /\ fnOut' = [applied |-> TRUE, token |-> token]
       /\ urlS' = token)
  /\ UNCHANGED shareRead
  /\ FunctionFrame

CodecMaxPos == 2

(* the link is changed before it is read: one character replaced *)
CodecTamper(i, c) ==
  /\ phase = "codec"
  /\ fnOut.applied
  /\ urlS = fnOut.token
  /\ shareRead = NoShareRead
  /\ i \in DOMAIN urlS.v
  /\ urlS.v[i] # c
  /\ urlS' = JStr([urlS.v EXCEPT ![i] = c])
  /\ UNCHANGED <<shareRead, fnOut>>
  /\ FunctionFrame

(* the link is cut short *)
CodecTruncate ==
  /\ phase = "codec"
  /\ fnOut.applied
  /\ urlS = fnOut.token
  /\ shareRead = NoShareRead
  /\ urlS' = JStr(SubSeq(urlS.v, 1, Len(urlS.v) - 1))
  /\ UNCHANGED <<shareRead, fnOut>>
  /\ FunctionFrame

(* readSharePayload() on the page whose s parameter is urlS *)
CodecDecode ==
  /\ phase = "codec"
  /\ fnOut.applied
  /\ shareRead = NoShareRead
  /\ Bind(readSharePayload(urlS), LAMBDA r :
       shareRead' = [s |-> urlS, payload |-> r.payload, error |-> r.error,
                     steps |-> r.steps])
  /\ UNCHANGED <<urlS, fnOut>>
  /\ FunctionFrame

(* the characters put in: a plus, slash, equals, space, full stop, trade
   mark sign, or one of the alphabet *)
SpecCodec ==
  InitCodec
    /\ [][\/ CodecEncode
          \/ \E i \in 1..CodecMaxPos, c \in {43, 47, 61, 32, 46, 8482, 45, 81} :
               CodecTamper(i, c)
          \/ CodecTruncate
          \/ CodecDecode]_vars

-----------------------------------------------------------------------------
(* The share URL and QR effect and the master load, with results that come
   late *)

(* the user selects and deselects the master flavors and adds a flavor with
   a name of 1100 letters, whose share URL is too long for a QR code; the
   page is unmounted at any time *)
SpecQr ==
  Init /\ [][\/ MountEffects
             \/ RunEffects
             \/ \E res \in FetchResults : FetchSettles(res)
             \/ \E i \in 1..MaxQrJobs, ok \in BOOLEAN : QrSettles(i, ok)
             \/ \E name \in Range(FlavorNames(masterRows)) : toggleFlavor(name)
             \/ addManualFlavor([flavor |-> [i \in 1..1100 |-> 97], category |-> Other,
                                 allergens |-> MilkYes])
             \/ Unmount]_vars

-----------------------------------------------------------------------------
(* The classifier *)

(* the words the names given to the classifier are made of: the words of
   its four tests, in the order of the tests *)
ClassifyWords ==
  << {Chars("ice cream"), Chars("sorbet"), Chars("frozen dessert")},
     {Chars("cake"), Chars("brownie"), Chars("cupcake"), Chars("muffin"), Chars("pie")},
     {Chars("cone"), Chars("waffle"), Chars("bowl")},
     { Chars("cookies"), Chars("cookie"), Chars("sprinkles"), Chars("chips"),
       Chars("nuts"), Chars("almonds"), Chars("walnuts"), Chars("pecans"),
       Chars("cashews"), Chars("pistach"), Chars("peanuts"), Chars("m&m"),
       Chars("oreo"), Chars("fudge"), Chars("ganache"), Chars("caramel"),
       Chars("marshmallow"), Chars("whipped"), Chars("topping") } >>

(* a name of no, one or two words (vanilla is in none of the tests), in
   lower case or in capitals *)
InitClassify ==
  LET words == UNION Range(ClassifyWords) \cup {<<>>, Chars("vanilla")}
      Capitals(n) == [i \in DOMAIN n |-> IF n[i] >= 97 /\ n[i] <= 122 THEN n[i] - 32 ELSE n[i]]
  IN \E first \in words, second \in words, capitals \in BOOLEAN :
       Bind(IF first = <<>> \/ second = <<>> THEN first \o second
            ELSE first \o <<32>> \o second,
            LAMBDA n : FunctionRun("classify", IF capitals THEN Capitals(n) ELSE n))

(* inferCategory(name) *)
ClassifyApply ==
  /\ phase = "classify"
  /\ ~fnOut.applied
  /\ fnOut' = [applied |-> TRUE, category |-> inferCategory(fnArg)]
  /\ UNCHANGED <<urlS, shareRead>>
  /\ FunctionFrame

SpecClassify == InitClassify /\ [][ClassifyApply]_vars

-----------------------------------------------------------------------------
(* Properties of the session *)

(* a reference (master) flavor is not in the selection *)
MissingMaster ==
  \E i \in DOMAIN masterRows : JStr(masterRows[i].flavor) \notin Range(selected)

(* the gate's comparison: fewer selected rows than the nonzero reference count *)
CountBelow == masterFlavorCount > 0 /\ Len(selectedRows) < masterFlavorCount

Asked == io # <<>> /\ io[1] \in {"confirm:ok", "confirm:cancel"}

Output == "print" \in Range(io) \/ "save" \in Range(io)

PrintStep == \E t \in 0..MaxTick, answer \in BOOLEAN : onPrint(t, answer)

PdfStep == \E t \in 0..MaxTick, answer \in BOOLEAN : onDownloadPdf(t, answer)

QrStep == \E t \in 0..MaxTick : onPrintQr(t)

(* C1: search independence. A step that changes the search text, whatever
   the catalog, the selection, the active categories and the split flag are
   and whatever the old and the new text, leaves outputRows, the selection
   and the ui filter state as they were. *)
C1_SearchIndependence ==
  [][search' # search =>
       /\ OutputRowsIn(manualRows', masterRows', selected', ui', search') = outputRows
       /\ selected' = selected
       /\ ui' = ui]_vars

(* C1 happens: a selected row is in the output while the search text hides
   it from the list *)
C1_OutputHiddenBySearch ==
  /\ search # <<>>
  /\ \E i \in DOMAIN outputRows :
       ~Includes(ToLowerCase(outputRows[i].flavor), ToLowerCase(Trim(search)))

(* C2: in every state outputRows is exactly the catalog items whose name is
   in the selection and whose category passes the active-category filter (an
   empty activeCategories lets every category pass), in the order of the
   catalog, which is name order; so a selected item whose category is
   filtered out is not in outputRows. *)
C2_OutputRows ==
  /\ outputRows =
       SelectSeq(allRows, LAMBDA r :
         /\ JStr(r.flavor) \in Range(selected)
         /\ (ui.activeCategories = <<>> \/ r.category \in Range(ui.activeCategories)))
  /\ \A i \in DOMAIN outputRows : \A j \in DOMAIN outputRows :
       i < j => localeCompare(outputRows[i].flavor, outputRows[j].flavor) <= 0

(* C2 happens: a selected item is filtered out by its category while another
   one is in the output *)
C2_SelectedButFilteredOut ==
  /\ outputRows # <<>>
  /\ \E i \in DOMAIN allRows :
       /\ JStr(allRows[i].flavor) \in Range(selected)
       /\ ui.activeCategories # <<>>
       /\ allRows[i].category \notin Range(ui.activeCategories)

(* C3: Print and Download PDF are never silent about missing flavors: they
   ask "Do you see every flavor you carry?", before any output, exactly when
   at least one loaded reference flavor is not in the selection; they skip
   the question only when every reference flavor is selected or there is
   none. *)
C3_NeverSilent ==
  [][(PrintStep \/ PdfStep) => (MissingMaster <=> Asked')]_vars

(* C3 fails here: Print has printed without a question while a reference
   flavor is not selected *)
C3_PrintedSilently == io = <<"print">> /\ printMode = "full" /\ MissingMaster

(* C4 as stated: each of Print, Print QR and Download PDF, when the selected
   count is below the nonzero reference count, reaches its print or save step
   only after a confirmation was asked and accepted in the same action. *)
C4_EveryExportGated ==
  [][((PrintStep \/ QrStep \/ PdfStep) /\ CountBelow /\ Output')
       => (Len(io') = 2 /\ io'[1] = "confirm:ok")]_vars

(* C4, amended: Print and Download PDF, when the selected count is below the
   nonzero reference count, reach their print or save step only after a
   confirmation was asked and accepted in the same action; Print QR prints
   without asking. *)
C4_PrintAndPdfGated ==
  [][/\ ((PrintStep \/ PdfStep) /\ CountBelow /\ Output')
          => (Len(io') = 2 /\ io'[1] = "confirm:ok")
     /\ QrStep => io' = <<"print">>]_vars

(* C4 happens: with the selected count below the reference count, the output
   followed an accepted confirmation *)
C4_ConfirmedThenOutput ==
  CountBelow /\ io \in {<<"confirm:ok", "print">>, <<"confirm:ok", "save">>}

(* C5 as stated: when the user declines the confirmation in Print or
   Download PDF nothing is printed or saved and no state variable differs
   from its value before the action. *)
C5_DeclineChangesNothing ==
  [][((PrintStep \/ PdfStep) /\ "confirm:cancel" \in Range(io'))
       => /\ io' = <<"confirm:cancel">>
          /\ UNCHANGED <<phase, storage, urlS, search, masterRows, masterStatus,
                         manualRows, selected, ui, printedAt, printMode, shareUrl, qrDataUrl, qrHint, qrJobs,
                         shareLoadError, fetchState, pending, shareRead>>]_vars

(* C5, amended: when the user declines the confirmation in Print or Download
   PDF nothing is printed or saved, and every state variable but printedAt
   keeps its value: the catalog, the selection, the ui state, the search
   text, the stored entries, the share URL and the print mode; printedAt was
   set to the current time before the question. *)
C5_DeclineKeepsAllButPrintedAt ==
  [][((PrintStep \/ PdfStep) /\ "confirm:cancel" \in Range(io'))
       => /\ io' = <<"confirm:cancel">>
          /\ \E t \in 0..MaxTick : printedAt' = nowLabel(t)
          /\ UNCHANGED <<phase, storage, urlS, search, masterRows, masterStatus,
                         manualRows, selected, ui, printMode, shareUrl, qrDataUrl, qrHint, qrJobs,
                         shareLoadError, fetchState, pending, shareRead>>]_vars

(* C5 happens: the user declined, later than the minute the page was opened *)
C5_DeclinedLater == io = <<"confirm:cancel">> /\ printedAt > 0

(* C6: the gate applied to (selectedCount, totalCount) asks for confirmation
   if and only if totalCount > 0 and selectedCount < totalCount; with
   totalCount = 0 it never asks, with selectedCount >= totalCount it never
   asks, and when it does not ask it lets the export go on. *)
C6_GateAsksIffBelow ==
  (phase = "gate" /\ fnOut.applied) =>
    /\ (fnOut.dialogs # <<>>) <=>
         (fnArg.totalCount > 0 /\ fnArg.selectedCount < fnArg.totalCount)
    /\ fnArg.totalCount = 0 => (fnOut.dialogs = <<>> /\ fnOut.result)
    /\ fnArg.selectedCount >= fnArg.totalCount => (fnOut.dialogs = <<>> /\ fnOut.result)

(* C6 happens: the gate was applied to (3, 6) and asked *)
C6_AskedThreeOfSix ==
  /\ phase = "gate"
  /\ fnOut.applied
  /\ fnArg = [selectedCount |-> 3, totalCount |-> 6]
  /\ fnOut.dialogs # <<>>

-----------------------------------------------------------------------------
(* Properties of the share codec and of page loads *)

(* C7 as stated: for every JSON value v that a JSON serialize/parse cycle
   gives back unchanged, falsy values and strings with non-ASCII characters
   included, reading the token made of v yields the payload v and no error. *)
C7_RoundTrip ==
  (/\ phase = "codec"
   /\ fnOut.applied
   /\ shareRead.s = fnOut.token
   /\ JsonParse(Stringify(fnArg)).ok
   /\ JsonParse(Stringify(fnArg)).val = fnArg)
  => (shareRead.payload = fnArg /\ shareRead.error = "")

(* C7 fails here: the token made of 0 was read as it was made, and the read
   gave "could not parse" *)
C7_ZeroRejected ==
  /\ phase = "codec"
  /\ fnArg = JNum(0)
  /\ fnOut.applied
  /\ shareRead.s = fnOut.token
  /\ shareRead.error = ErrCouldNotParse

InAlphabet(c) ==
  c \in Range(Chars("ABCDEFGHIJKLMNOPQRSTUVWXYZabcdefghijklmnopqrstuvwxyz0123456789_-"))

(* C8: a token that holds a character outside [A-Za-z0-9_-] is rejected with
   the "bad characters" error and a null payload, and neither the base64
   decoding nor the JSON parsing is attempted for it. *)
C8_BadCharactersRejected ==
  (/\ shareRead.s.t = "str"
   /\ \E i \in DOMAIN shareRead.s.v : ~InAlphabet(shareRead.s.v[i]))
  => /\ shareRead.error = ErrBadChars
     /\ shareRead.payload = JNull
     /\ shareRead.steps = <<"test">>

(* C8 happens: a token with a plus sign in the place of one of its
   characters was read *)
C8_PlusSignRead ==
  /\ phase = "codec"
  /\ shareRead.s.t = "str"
  /\ 43 \in Range(shareRead.s.v)
  /\ shareRead.error = ErrBadChars

(* C9: when the first render reads a share token and the read fails (bad
   characters, could not decode, could not parse), one error message, the
   one of that failure, is surfaced, and the selection and the ui state stay
   as they were, with no second render, as with no token. *)
C9_FailedReadChangesNothing ==
  [][(phase = "mount" /\ phase' = "ready" /\ Truthy(urlS) /\ ~Truthy(shareRead'.payload))
       => /\ shareLoadError' \in {"Invalid share link (bad characters).",
                                  "Invalid share link (could not decode).",
                                  "Invalid share link (could not parse)."}
          /\ shareLoadError' = shareRead'.error
          /\ selected' = selected
          /\ ui' = ui
          /\ pending' = {}]_vars

(* C9 happens: a token that could not be parsed was read on a page that
   started with a stored selection, and the selection is still there *)
C9_UnparsableTokenRead ==
  /\ phase = "ready"
  /\ shareLoadError = "Invalid share link (could not parse)."
  /\ selected # <<>>

(* C10 as stated: the share link made in a state with selection S and ui
   state U, opened in a new page, gives the selection S and U's
   splitByCategory and activeCategories; the catalog load, which settles
   after the link is applied, leaves them as they are. *)
C10_ShareRestore ==
  [][/\ (shared.made /\ phase = "mount" /\ phase' = "ready")
          => /\ Range(selected') = shared.sel
             /\ ui'.splitByCategory = shared.ui.splitByCategory
             /\ ui'.activeCategories = shared.ui.activeCategories
     /\ (shared.made /\ fetchState = "pending" /\ fetchState' = "settled")
          => (selected' = selected /\ ui' = ui)]_vars

(* C10 fails here: the page opened from the link shows another selection
   than the one the link was made from *)
C10_OtherSelectionRestored ==
  /\ shared.made
  /\ phase = "ready"
  /\ Range(selected) # shared.sel

-----------------------------------------------------------------------------
(* Properties of startup and of the manual list *)

(* an item with a trimmed, non-empty name, one of the five categories and,
   for each of the seven allergens, one of Yes, No, Unknown *)
WellFormedItem(r) ==
  /\ r.flavor # <<>>
  /\ r.flavor = Trim(r.flavor)
  /\ r.category \in Category
  /\ \A i \in DOMAIN ALLERGENS :
       GetProp(r.allergens, ALLERGENS[i]) \in {JStr(Yes), JStr(No), JStr(Unknown)}

(* C11: startup never fails on persisted state. Whatever is stored under the
   three keys (nothing, malformed JSON, null, a wrong primitive type, an
   object for an array, an array for an object, elements of the wrong type),
   the initialisers complete and give a selection that is a set of strings, a
   list of well-formed manual items, and a ui state whose splitByCategory is
   a boolean and whose activeCategories are all categories. *)
C11_StartupNeverFails ==
  /\ phase # "crashed"
  /\ phase = "mount" =>
       /\ \A i \in DOMAIN selected : selected[i].t = "str"
       /\ \A i \in DOMAIN manualRows : WellFormedItem(manualRows[i])
       /\ ui.splitByCategory.t = "bool"
       /\ \A i \in DOMAIN ui.activeCategories : ui.activeCategories[i] \in Category

(* C11 fails here: an object is stored under the selection key and the
   initialiser of selected threw *)
C11_CrashedOnStoredObject ==
  phase = "crashed" /\ storage[STORAGE_SELECTED] = JStr(Chars("{}"))

(* C12: in every state every item of the catalog, reference or manual,
   restored manual items included, has for each of the seven allergens one of
   the values Yes, No, Unknown, and one of the five categories. *)
C12_CatalogWellFormed ==
  \A i \in DOMAIN allRows :
    /\ allRows[i].category \in Category
    /\ \A k \in DOMAIN ALLERGENS :
         GetProp(allRows[i].allergens, ALLERGENS[k]) \in {JStr(Yes), JStr(No), JStr(Unknown)}

(* C12 fails here: the page is up and its catalog holds the stored value
   "maybe" for Milk *)
C12_StoredMaybeInCatalog ==
  /\ phase = "ready"
  /\ \E i \in DOMAIN allRows :
       GetProp(allRows[i].allergens, Chars("Milk")) = JStr(Chars("maybe"))

(* C13: addManualFlavor with a name that is not empty after trimming leaves
   exactly one manual item of the trimmed name, with the category and the
   allergens of the new record, leaves every other manual item as it was,
   keeps the list sorted by name and has the trimmed name in the selection;
   with a name that is empty after trimming no state variable changes. *)
C13_AddManualItem ==
  [][\A rec \in AddInputs : addManualFlavor(rec) =>
       IF Trim(rec.flavor) # <<>>
       THEN /\ Cardinality({i \in DOMAIN manualRows' :
                              manualRows'[i].flavor = Trim(rec.flavor)}) = 1
            /\ \A i \in DOMAIN manualRows' :
                 manualRows'[i].flavor = Trim(rec.flavor) =>
                   manualRows'[i] = [flavor |-> Trim(rec.flavor), category |-> rec.category,
                                     allergens |-> rec.allergens, source |-> "manual"]
            /\ SelectSeq(manualRows', LAMBDA r : r.flavor # Trim(rec.flavor))
                 = SelectSeq(manualRows, LAMBDA r : r.flavor # Trim(rec.flavor))
            /\ \A i \in DOMAIN manualRows' : \A j \in DOMAIN manualRows' :
                 i < j => localeCompare(manualRows'[i].flavor, manualRows'[j].flavor) <= 0
            /\ JStr(Trim(rec.flavor)) \in Range(selected')
       ELSE UNCHANGED <<phase, storage, urlS, search, masterRows, masterStatus, manualRows,
                        selected, ui, printedAt, printMode, shareUrl, qrDataUrl, qrHint, qrJobs,
                        shareLoadError,
                        fetchState, pending, shareRead>>]_vars

(* C13 happens: the restored item Mint (Cake) was replaced by the record
   Mint (Ice Cream), next to the restored item Apple *)
C13_RestoredMintReplaced ==
  /\ Len(manualRows) = 2
  /\ manualRows[1].flavor = Chars("Apple")
  /\ manualRows[2] = [flavor |-> Chars("Mint"), category |-> IceCream,
                      allergens |-> MilkYes, source |-> "manual"]

(* C14: in every state, the state the initialisers give from the persisted
   manual items included, the manual list holds at most one item per name. *)
C14_ManualNamesUnique ==
  \A i \in DOMAIN manualRows : \A j \in DOMAIN manualRows :
    i # j => manualRows[i].flavor # manualRows[j].flavor

(* C14 fails here: two items named Mint were restored *)
C14_TwoMintsRestored ==
  /\ phase = "ready"
  /\ Cardinality({i \in DOMAIN manualRows : manualRows[i].flavor = Chars("Mint")}) = 2

-----------------------------------------------------------------------------
(* Properties of the share link's ui, of the classifier and of the lists *)

(* C15: when the first render applies a payload read from the link, the ui
   is overlaid field by field: splitByCategory is the payload's only if that
   is a boolean, activeCategories the payload's only if that is an array,
   each element being itself when it is one of the five categories and
   Mix-In otherwise; an absent or wrong-typed field keeps its previous
   value; a ui that is not a plain object changes no field, and a selected
   that is not an array leaves the selection as it was.  (An element of
   selected whose conversion to a string throws stops the effect before the
   ui is touched.) *)
C15_ShareUiOverlay ==
  [][(phase = "mount" /\ phase' = "ready" /\ Truthy(shareRead'.payload)) =>
       LET pui == GetProp(shareRead'.payload, Chars("ui"))
           psel == GetProp(shareRead'.payload, Chars("selected"))
           plain == pui.t = "obj"
           applied == plain /\ shareLoadError' # ErrCouldNotApply
           pSplit == GetProp(pui, Chars("splitByCategory"))
           pActive == GetProp(pui, Chars("activeCategories"))
       IN /\ ui'.splitByCategory =
               IF applied /\ pSplit \in {JBool(TRUE), JBool(FALSE)}
               THEN pSplit ELSE ui.splitByCategory
          /\ ui'.activeCategories =
               IF applied /\ pActive.t = "arr"
               THEN [i \in DOMAIN pActive.v |->
                      IF pActive.v[i] \in {JStr(c) : c \in Category}
                      THEN pActive.v[i].v ELSE MixIn]
               ELSE ui.activeCategories
          /\ ~plain => ui' = ui
          /\ psel.t # "arr" => selected' = selected]_vars

(* a link whose ui has a wrong-typed splitByCategory and an array of
   categories was applied over a stored ui: the stored false is kept and the
   categories are Other, Mix-In, Mix-In *)
C15_WrongTypedSplitKept ==
  /\ phase = "ready"
  /\ Truthy(shareRead.payload)
  /\ GetProp(GetProp(shareRead.payload, Chars("ui")), Chars("splitByCategory")) = JStr(Chars("true"))
  /\ ui.splitByCategory = JBool(FALSE)
  /\ ui.activeCategories = <<Other, MixIn, MixIn>>
  /\ shareLoadError = ""

(* C16: the classifier's tests are tried in order and the first that
   matches decides: a name with an ice cream word is Ice Cream whatever
   else it holds, else a name with a cake word is Cake, else a name with a
   cone or bowl word is Cone/Bowl, and every other name, the empty one
   included, is Mix-In; the result is never Other and is the result for the
   lower-cased name. *)
C16_FirstRuleWins ==
  (phase = "classify" /\ fnOut.applied) =>
    LET Has(k) == \E w \in ClassifyWords[k] : Includes(ToLowerCase(fnArg), w)
    IN /\ fnOut.category =
            IF Has(1) THEN IceCream
            ELSE IF Has(2) THEN Cake
            ELSE IF Has(3) THEN ConeBowl
            ELSE MixIn
       /\ fnOut.category # Other
       /\ fnOut.category = inferCategory(ToLowerCase(fnArg))
       /\ fnArg = <<>> => fnOut.category = MixIn

(* a name in capitals with a cake word before an ice cream word was
   classified as Ice Cream *)
C16_CakeThenIceCream ==
  /\ phase = "classify"
  /\ fnOut.applied
  /\ fnArg = Chars("CAKE ICE CREAM")
  /\ fnOut.category = IceCream

(* the tables t show the rows in groups: each row in exactly one table, the
   one titled with its category; each table sorted by name; the tables in
   the order Ice Cream, Mix-In, Cake, Cone/Bowl, Other; no table empty *)
GroupedOutput(t, rows) ==
  LET Place(cat) == CHOOSE k \in 1..5 : <<IceCream, MixIn, Cake, ConeBowl, Other>>[k] = cat
  IN /\ \A g \in DOMAIN t :
          /\ t[g].title \in Category
          /\ t[g].rows # <<>>
          /\ \A j \in DOMAIN t[g].rows :
               /\ t[g].rows[j].category = t[g].title
               /\ t[g].rows[j] \in Range(rows)
               /\ \A h \in DOMAIN t[g].rows :
                    j < h => localeCompare(t[g].rows[j].flavor, t[g].rows[h].flavor) <= 0
          /\ \A h \in DOMAIN t : g < h => Place(t[g].title) < Place(t[h].title)
     /\ \A i \in DOMAIN rows : \E g \in DOMAIN t : rows[i] \in Range(t[g].rows)
     /\ Len(Concat([g \in DOMAIN t |-> t[g].rows])) = Len(rows)

(* C17: with splitByCategory on, the output (preview, print and PDF) is
   outputRows in groups, a partition of outputRows with each group sorted by
   name, in the order Ice Cream, Mix-In, Cake, Cone/Bowl, Other, a category
   without rows giving no section; with splitByCategory off it is the one
   list outputRows. *)
C17_GroupedOutput ==
  phase = "ready" =>
    Bind(outputRows, LAMBDA rows :
      IF Truthy(ui.splitByCategory)
      THEN GroupedOutput(previewTables, rows) /\ GroupedOutput(pdfTables, rows)
      ELSE /\ rows # <<>> => previewTables = << [title |-> <<>>, rows |-> rows] >>
           /\ pdfTables = << [title |-> <<>>, rows |-> rows] >>)

(* four categories are in the split output: Sorbet, Oreo, Mint and Apple,
   each in a section of its own *)
C17_FourSections ==
  /\ phase = "ready"
  /\ Truthy(ui.splitByCategory)
  /\ Len(outputRows) = 4
  /\ [g \in DOMAIN previewTables |-> previewTables[g].title] = <<IceCream, MixIn, Cake, Other>>

(* the names of the catalog items that pass the category filter and hold
   the trimmed search text, whatever the case of the letters *)
VisibleNames ==
  Bind(ToLowerCase(Trim(search)), LAMBDA q :
    Bind(IF ui.activeCategories # <<>> THEN Range(ui.activeCategories)
         ELSE {allRows[i].category : i \in DOMAIN allRows},
         LAMBDA active :
           { JStr(allRows[i].flavor) :
               i \in { h \in DOMAIN allRows :
                         /\ allRows[h].category \in active
                         /\ Includes(ToLowerCase(allRows[h].flavor), q) } }))

(* C18: with V the visible names, selectAllShown makes the selection the
   old one with V added, clearShown the old one without V, so that a name
   outside V is selected after either exactly when it was before;
   toggleFlavor(n) changes whether n is selected and nothing else of the
   selection. *)
C18_VisibleSubsetOperations ==
  [][Bind(VisibleNames, LAMBDA V :
       /\ selectAllShown => Range(selected') = Range(selected) \cup V
       /\ clearShown => Range(selected') = Range(selected) \ V
       /\ \A n \in {JStr(allRows[i].flavor) : i \in DOMAIN allRows} :
            toggleFlavor(n) =>
              /\ (n \in Range(selected')) = (n \notin Range(selected))
              /\ Range(selected') \ {n} = Range(selected) \ {n})]_vars

(* Oreo was selected, the search text then hid it, and Sorbet was added to
   the selection while Oreo stayed in it *)
C18_HiddenNameKept ==
  /\ phase = "ready"
  /\ search = Chars(" SO")
  /\ pending = {"selected"}
  /\ selected = <<JStr(Chars("Oreo")), JStr(Chars("Sorbet"))>>
  /\ VisibleNames = {JStr(Chars("Sorbet"))}

(* C19: a step in which the reference load fails (no answer or a status
   that is not OK, a body that cannot be read, a body of another shape)
   leaves the reference rows empty and the status 'error', the manual items
   and the selection as they were, and the catalog made of the manual items
   only; and whenever the reference list is not empty the status is
   'ready'. *)
C19_FetchFailure ==
  [][/\ (\E res \in FetchResults \ {[ok |-> TRUE, json |-> ApiBody]} : FetchSettles(res))
          => /\ masterRows' = <<>>
             /\ masterStatus' = "error"
             /\ manualRows' = manualRows
             /\ selected' = selected
             /\ Bind(AllRowsOf(manualRows', masterRows'), LAMBDA catalog :
                  /\ Len(catalog) = Len(manualRows)
                  /\ Range(catalog) = Range(manualRows))
     /\ masterRows # <<>> => masterStatus = "ready"
     /\ masterRows' # <<>> => masterStatus' = "ready"]_vars

(* the load failed on a page with a manual item in the selection *)
C19_FailedWithManualSelected ==
  /\ fetchState = "settled"
  /\ masterStatus = "error"
  /\ masterRows = <<>>
  /\ Len(manualRows) = 1
  /\ selected = <<JStr(manualRows[1].flavor)>>
  /\ Len(allRows) = 1

-----------------------------------------------------------------------------
(* Properties of the results that come late *)

(* C20: the last invocation wins.  A call of QRCode.toDataURL whose effect
   instance was cleaned up (the effect ran again after a change of the
   selection or the ui, or the page was unmounted) stores neither qrDataUrl
   nor qrHint when it settles, and a master load that settles after the
   page was unmounted stores neither masterRows nor masterStatus; a QR
   image that is stored is the image of the share URL of that moment; and
   while the share URL is longer than 1500 characters qrDataUrl is empty. *)
C20_LastInvocationWins ==
  [][/\ \A i \in DOMAIN qrJobs : \A ok \in BOOLEAN :
          (qrJobs[i].cancelled /\ QrSettles(i, ok)) => UNCHANGED <<qrDataUrl, qrHint>>
     /\ (fetchState = "cancelled" /\ \E res \in FetchResults : FetchSettles(res))
          => UNCHANGED <<masterRows, masterStatus>>
     /\ phase = "unmounted" => UNCHANGED <<qrDataUrl, qrHint, masterRows, masterStatus>>
     /\ (qrDataUrl' # qrDataUrl /\ qrDataUrl' # <<>>) => qrDataUrl' = QrImage(shareUrl')
     /\ Len(shareUrl) > 1500 => qrDataUrl = <<>>
     /\ Len(shareUrl') > 1500 => qrDataUrl' = <<>>]_vars

(* the page was unmounted while the master load and the call of
   QRCode.toDataURL were awaited; both have settled since and nothing was
   stored: the status is still 'loading' and there is neither an image nor
   a hint *)
C20_LateResultsDropped ==
  /\ phase = "unmounted"
  /\ fetchState = "discarded"
  /\ masterStatus = "loading"
  /\ shareUrl # <<>>
  /\ qrJobs = <<>>
  /\ qrDataUrl = <<>>
  /\ qrHint = ""

-----------------------------------------------------------------------------
(* Persistence: the selection, the manual flavors and the ui are changed, the
   effects write them to localStorage, and the page is opened again *)

SpecPersist ==
  Init
    /\ [][\/ MountEffects
          \/ RunEffects
          \/ \E res \in FetchResults : res.json \in {ApiBody, JNull} /\ FetchSettles(res)
          \/ \E i \in 1..MaxQrJobs : QrSettles(i, TRUE)
          \/ \E name \in Range(FlavorNames(filteredRows)) : qrJobs = <<>> /\ toggleFlavor(name)
          \/ \E rec \in ManualInputs : qrJobs = <<>> /\ addManualFlavor(rec)
          \/ qrJobs = <<>> /\ setSearch(Chars(" SO"))
          \/ \E checked \in BOOLEAN : qrJobs = <<>> /\ setSplitByCategory(checked)
          \/ qrJobs = <<>> /\ toggleCategory(IceCream)
          \/ qrJobs = <<>> /\ resetCategories
          \/ qrJobs = <<>> /\ Reload(0)]_vars

(* the names of sel in ascending order of their code units *)
SortedNames(sel) ==
  LET Rank(x) == Cardinality({y \in Range(sel) : CompareBy(y.v, x.v, LAMBDA u : u) < 0}) + 1
  IN [r \in 1..Cardinality(Range(sel)) |-> CHOOSE x \in Range(sel) : Rank(x) = r]

(* the array of the rows, each with its flavor, category and allergens *)
ManualItems(rows) ==
  JArr([i \in DOMAIN rows |->
    JObj(<< Prop(Chars("flavor"), JStr(rows[i].flavor)),
            Prop(Chars("category"), JStr(rows[i].category)),
            Prop(Chars("allergens"), rows[i].allergens) >>)])

(* C21: once the pending persistence effects have run, the selected-names
   entry is the sorted array of the current selection, the manual-items entry
   lists the current manual items and the ui-state entry is the current UI
   state; a page opened again on these entries, with no share token, has the
   same selection, manual items and UI state, and an empty search text. *)
C21_PersistenceRoundTrip ==
  /\ [](phase = "ready" /\ pending = {} =>
          /\ storage[STORAGE_SELECTED] = JStr(Stringify(JArr(SortedNames(selected))))
          /\ storage[STORAGE_MANUAL] = JStr(Stringify(ManualItems(manualRows)))
          /\ storage[STORAGE_UI] = JStr(Stringify(UiValue(ui))))
  /\ [][phase = "ready" /\ pending = {} /\ phase' = "mount" =>
          /\ urlS' = JNull
          /\ Range(selected') = Range(selected)
          /\ Len(selected') = Len(selected)
          /\ manualRows' = manualRows
          /\ ui' = ui
          /\ search' = <<>>
          /\ storage' = storage]_vars

(* a page opened again on the entries of a page that had the manual Mint and
   a master flavor selected, the split switched off and a category filter *)
C21_ReopenedWithState ==
  /\ phase = "mount"
  /\ storage[STORAGE_SELECTED] = JStr(Chars("[\"Mint\",\"Sorbet\"]"))
  /\ selected = <<JStr(Chars("Mint")), JStr(Chars("Sorbet"))>>
  /\ Len(manualRows) = 1
  /\ ui.splitByCategory = JBool(FALSE)
  /\ ui.activeCategories # <<>>
-----------------------------------------------------------------------------
(* Properties of "Select all reference" *)

(* C22: selectAllMaster replaces the selection: afterwards the selection is
   exactly the set of the names of the loaded master rows, whatever was
   selected before, whatever the search text and the category filter are;
   a name selected before that is not the name of a master row is no longer
   selected, and the search text, the ui and the catalog are left alone. *)
C22_SelectAllReplaces ==
  [][selectAllMaster =>
       /\ Range(selected') = {JStr(masterRows[i].flavor) : i \in DOMAIN masterRows}
       /\ \A name \in Range(selected) :
            (\A i \in DOMAIN masterRows : name # JStr(masterRows[i].flavor))
              => name \notin Range(selected')
       /\ search' = search /\ ui' = ui
       /\ manualRows' = manualRows /\ masterRows' = masterRows]_vars

(* the two master flavors are selected and the manual Mint is not, the
   persistence effect of the selection is pending, and the search text and
   the category filter show the Sorbet only *)
C22_MintDeselectedUnderFilter ==
  /\ selected = <<JStr(Chars("Oreo")), JStr(Chars("Sorbet"))>>
  /\ pending = {"selected"}
  /\ storage[STORAGE_SELECTED] = JStr(Chars("[\"Mint\"]"))
  /\ Len(manualRows) = 1
  /\ search = Chars(" SO")
  /\ ui.activeCategories = <<IceCream>>
  /\ FlavorNames(filteredRows) = <<JStr(Chars("Sorbet"))>>
-----------------------------------------------------------------------------
(* Properties of the category chips *)

(* C23: a chip clicked while activeCategories is empty activates every
   category of the catalog but the clicked one; a chip clicked while it is
   the only active category stores the empty list; "All" stores the empty
   list; and no chip click ends in a state where the category filter hides
   every row of the catalog. *)
C23_ChipsNeverHideAll ==
  /\ [][\A c \in Category : toggleCategory(c) =>
          /\ ui.activeCategories = <<>> =>
               Range(ui'.activeCategories) = Range(categories) \ {c}
          /\ Range(ui.activeCategories) = {c} => ui'.activeCategories = <<>>
          /\ \E i \in DOMAIN allRows :
               allRows[i].category \in ActiveCategorySetOf(ui', allRows)]_vars
  /\ [][resetCategories => ui'.activeCategories = <<>>]_vars

(* the page shows the manual Mint, an Ice Cream, the master load has failed,
   and the only active category, restored from what the page stored before
   it was opened again, is Mix-In: no row passes the filter and the one chip
   is off *)
C23_EveryRowHidden ==
  /\ phase = "ready"
  /\ masterStatus = "error"
  /\ FlavorNames(allRows) = <<JStr(Chars("Mint"))>>
  /\ categories = <<IceCream>>
  /\ ui.activeCategories = <<MixIn>>
  /\ pending = {"ui"}
  /\ filteredRows = <<>>
====
